---------------------------- MODULE Spec2Model ----------------------------
(***************************************************************************)
(* A model of twitter_parser.core.parser.TwitterDataParser: the pipeline   *)
(* run by __init__ (posts, bulk handle lookup, follow edges, direct        *)
(* messages, group conversations) and the pure conversion of one post.     *)
(*                                                                         *)
(* Text is a sequence of characters (one-character strings); a literal of  *)
(* a URL template is kept as one element.  User ids are the integer values *)
(* of the archive's decimal id strings: int(id) is the value, formatting   *)
(* an id into a template is ToString of the value.                         *)
(***************************************************************************)
EXTENDS Integers, Sequences, FiniteSets, TLC

VARIABLES
    pc,                     \* position of the pipeline inside __init__
    tweetsIn,               \* raw posts of the archive (tweets.js), in file order
    followingIn,            \* raw records of following.js
    followerIn,             \* raw records of follower.js
    dmsIn,                  \* raw conversations of direct-messages.js
    groupsIn,               \* raw conversations of direct-messages-group.js
    input_media,            \* file names under dir_input_media, in listing order
    unreadable,             \* files of dir_input_media that shutil.copy fails on
    previous,               \* what the runs before this one left, oldest first
    warnings,               \* number of logging.warning calls of _convert_tweet
    copies,                 \* the files _convert_tweet handed to shutil.copy
    dm_media,               \* file names under direct_messages_media
    group_media,            \* file names under direct_messages_group_media
    service,                \* what the lookup service answers for an id
    users,                  \* self._users: id -> handle
    tweets,                 \* self.tweets
    media_sources,          \* _get_tweets: media_sources
    output_media,           \* file names under dir_output_media
    user_ids,               \* _get_twitter_users: ids still to request
    retrieved,              \* _get_twitter_users: users = {} (id -> screen_name)
    request,                \* filtered_user_ids handed to _get_twitter_users
    sent,                   \* the batches requested from the service so far
    lookup,                 \* outcome of _lookup_users
    following,              \* self.following
    followers,              \* self.followers
    direct_messages,        \* self.direct_messages
    group_direct_messages,  \* self.group_direct_messages
    info                    \* value returned by retrieve_information

vars == <<pc, tweetsIn, followingIn, followerIn, dmsIn, groupsIn, input_media,
         unreadable, previous, warnings, copies,
          dm_media, group_media, service, users, tweets, media_sources, output_media, user_ids,
          retrieved, request, sent, lookup, following, followers,
          direct_messages, group_direct_messages, info>>

---------------------------------------------------------------------------
(* Text helpers: Python str methods on character sequences.               *)

Whitespace == {" ", "\n"}

\* the characters of the model's alphabet matched by [0-9A-Za-z_]
WordChars == {"R", "T", "a", "b", "c", "h", "o", "x", "7", "9", "_"}

None == <<"None">>

RECURSIVE SplitAcc(_, _, _)
SplitAcc(rest, cur, out) ==
    IF rest = <<>>
    THEN IF cur = <<>> THEN out ELSE Append(out, cur)
    ELSE IF Head(rest) \in Whitespace
         THEN SplitAcc(Tail(rest), <<>>, IF cur = <<>> THEN out ELSE Append(out, cur))
         ELSE SplitAcc(Tail(rest), Append(cur, Head(rest)), out)

\* str.split(): the maximal runs of non-whitespace characters
Split(s) == SplitAcc(s, <<>>, <<>>)

RECURSIVE Concat(_)
Concat(ss) == IF ss = <<>> THEN <<>> ELSE Head(ss) \o Concat(Tail(ss))

\* body_markdown += word + " " for each word
JoinWords(words) == Concat([i \in 1..Len(words) |-> words[i] \o <<" ">>])

StartsWith(s, p) == Len(p) <= Len(s) /\ SubSeq(s, 1, Len(p)) = p

RECURSIVE Replace(_, _, _)
\* str.replace(old, new): every non-overlapping occurrence, left to right
Replace(s, old, new) ==
    IF old = <<>>
    THEN new \o Concat([i \in 1..Len(s) |-> <<s[i]>> \o new])
    ELSE IF s = <<>> THEN <<>>
    ELSE IF StartsWith(s, old)
         THEN new \o Replace(SubSeq(s, Len(old) + 1, Len(s)), old, new)
         ELSE <<Head(s)>> \o Replace(Tail(s), old, new)

RECURSIVE WordRun(_, _)
\* the end of the run of [0-9A-Za-z_] characters that starts at position i
WordRun(s, i) == IF i <= Len(s) /\ s[i] \in WordChars THEN WordRun(s, i + 1) ELSE i

RECURSIVE MentionRunLen(_, _)
\* re.match(r'^(@[0-9A-Za-z_]* )*', s): the length of the match, counted from i - 1
MentionRunLen(s, i) ==
    IF i <= Len(s) /\ s[i] = "@"
    THEN LET j == WordRun(s, i + 1)
         IN  IF j <= Len(s) /\ s[j] = " " THEN MentionRunLen(s, j + 1) ELSE i - 1
    ELSE i - 1

---------------------------------------------------------------------------
(* Constants of utils/constants.py and values of the optional fields.     *)

RT == <<"R", "T">>
UNKNOWN_HANDLE == <<"~unknown~handle~">>
\* None in a list-typed optional field
NoneList == <<None>>

\* USER_URL_TEMPLATE.format(id)
UserUrl(id) == <<"https://twitter.com/i/user/", ToString(id)>>

\* REPLAY_TO_TWEET.format(in_reply_to_screen_name=..., in_reply_to_status_id=...)
ReplyToTweetUrl(screen_name, status_id) ==
    <<"https://twitter.com/">> \o screen_name \o <<"/status/">> \o status_id

\* a variant: the link without its status segment
TweetUrlWithoutStatus(username, tweet_id_str) == <<"https://twitter.com/">> \o username \o <<"/">> \o tweet_id_str

\* TWEET_URL.format(username=..., tweet_id_str=...)
TweetUrl(username, tweet_id_str) ==
    <<"https://twitter.com/">> \o username \o <<"/status/">> \o tweet_id_str

\* BEST_QUALITY_URL.format(original_filename=...)
BestQualityUrl(original_filename) ==
    <<"https://pbs.twimg.com/media/">> \o original_filename \o <<":orig">>

\* self.user_name, read from account.js
user_name == <<"o">>

Has(rec, key) == key \in DOMAIN rec

\* a variant: a key that is there keeps its value
PutKeepsFirst(d, k, v) == IF k \in DOMAIN d THEN d ELSE (k :> v) @@ d

\* d[k] = v on a dict
Put(d, k, v) == (k :> v) @@ d

---------------------------------------------------------------------------
(* _convert_tweet, lines 422-598.  A raw post is a record whose optional   *)
(* keys are present or absent in its DOMAIN, as the keys of the JSON       *)
(* object are.  created_at, tweet_year and tweeted_at are copied through   *)
(* by the code and are left out.                                           *)

\* a variant: retweeted_from_handle[1:]
RetweetedFromKeepsLast(handle) == SubSeq(handle, 2, Len(handle))

\* retweeted_from_handle[1:len(retweeted_from_handle) - 1]
RetweetedFrom(handle) == SubSeq(handle, 2, Len(handle) - 1)

\* a variant: only the first word is dropped
RetweetBodyDropsOne(words) == JoinWords(SubSeq(words, 2, Len(words)))

\* lines 446-452: the words after the first two, each followed by a space
RetweetBody(words) == JoinWords(SubSeq(words, 3, Len(words)))

\* urlparse(word): scheme and netloc are non-empty and the word does not end
\* with an ellipsis.  A scheme with its "//" is the one element "https://".
IsAbsoluteUrl(word) ==
    /\ Len(word) >= 2
    /\ word[1] = "https://"
    /\ word[2] # "/"
    /\ word[Len(word)] # "..."

\* lines 456-475: does the legacy-link backfill append to entities['urls']
BackfillApplies(tweet) ==
    /\ Has(tweet, "entities")
    /\ ~Has(tweet.entities, "media")
    /\ (IF Has(tweet.entities, "urls") THEN Len(tweet.entities.urls) = 0 ELSE TRUE)
    /\ LET words == Split(tweet.full_text)
       IN  \E i \in 1..Len(words) : IsAbsoluteUrl(words[i])

\* the pretend entities appended by the backfill: url and expanded_url are the word
BackfillUrls(tweet) ==
    LET words == Split(tweet.full_text)
        F[i \in 0..Len(words)] ==
            IF i = 0 THEN <<>>
            ELSE IF IsAbsoluteUrl(words[i])
                 THEN Append(F[i - 1], [url |-> words[i], expanded_url |-> words[i]])
                 ELSE F[i - 1]
    IN  F[Len(words)]

\* tweet[TWEET_ENTITIES][URLS] when link expansion reads it
UrlEntities(tweet) ==
    IF BackfillApplies(tweet) THEN BackfillUrls(tweet) ELSE tweet.entities.urls

\* a variant: only the first entity of the list is applied
ExpandUrlsFirstEntity(body, urls) ==
    IF urls # <<>> /\ Has(urls[1], "url") /\ Has(urls[1], "expanded_url")
    THEN Replace(body, urls[1].url, urls[1].expanded_url)
    ELSE body

RECURSIVE ExpandUrls(_, _)
\* lines 479-482: one str.replace per entity carrying both forms, in list order
ExpandUrls(body, urls) ==
    IF urls = <<>> THEN body
    ELSE LET url == Head(urls)
         IN  ExpandUrls(IF Has(url, "url") /\ Has(url, "expanded_url")
                        THEN Replace(body, url.url, url.expanded_url)
                        ELSE body,
                        Tail(urls))

\* lines 477-482
ExpandLinks(tweet, body) ==
    IF Has(tweet, "entities") /\ Has(tweet.entities, "urls")
    THEN ExpandUrls(body, UrlEntities(tweet))
    ELSE body

\* line 488: the text matched at the start of the body
ReplyingToMatch(body) == SubSeq(body, 1, MentionRunLen(body, 1))

\* a variant: a self-reply is headed by the bare handle of the owner
ReplyingToOwnerHandle(body) == IF ReplyingToMatch(body) # <<>> THEN ReplyingToMatch(body) ELSE user_name

\* lines 489-493: replying_to
ReplyingTo(body) ==
    IF ReplyingToMatch(body) # <<>> THEN ReplyingToMatch(body) ELSE <<"@">> \o user_name

\* a variant: only the first mention is cut off
ReplyBodyFirstMention(body) ==
    LET j == WordRun(body, 2)
    IN  IF body # <<>> /\ body[1] = "@" /\ j <= Len(body) /\ body[j] = " "
        THEN SubSeq(body, j + 1, Len(body))
        ELSE body

\* lines 489-490: the body after the reply header is cut off
ReplyBody(body) == SubSeq(body, Len(ReplyingToMatch(body)) + 1, Len(body))

\* a variant: the first name of the header is always used
InReplyToScreenNameFromHeader(tweet, names) == names[1]

\* lines 500-501
InReplyToScreenName(tweet, names) ==
    IF Has(tweet, "in_reply_to_screen_name") THEN tweet.in_reply_to_screen_name
    ELSE names[1]

\* a variant: the RETWEET assignment comes last
TweetTypeRetweetLast(isRetweet, isReply) ==
    IF isRetweet THEN "RETWEET" ELSE IF isReply THEN "REPLY" ELSE "TWEET"

\* lines 433, 443, 496: the assignments to tweet_type, in program order
TweetType(isRetweet, isReply) ==
    IF isReply THEN "REPLY" ELSE IF isRetweet THEN "RETWEET" ELSE "TWEET"

---------------------------------------------------------------------------
(* Media of a post, lines 507-571.  A file is its name; input_media is the *)
(* listing of dir_input_media, output_media the names under                *)
(* dir_output_media.                                                       *)

RECURSIVE BaseName(_)
\* os.path.split(path)[1]
BaseName(path) ==
    IF \E i \in 1..Len(path) : path[i] = "/"
    THEN BaseName(Tail(path))
    ELSE path

\* os.path.join(self._paths.dir_output_media, archive_media_filename)
OutputPath(filename) == <<"twitter_parser-output/media/">> \o filename

\* _rel_url(file_output_media, example_file_output_tweets)
RelUrl(filename) == <<"../../media/">> \o filename

\* glob.glob(os.path.join(dir_input_media, tweet_id_str + '*'))
Glob(listing, prefix) == SelectSeq(listing, LAMBDA f : StartsWith(f, prefix))

\* a variant: the first variant that carries a bitrate is taken
BestVariantFirstSeen(variants, best) ==
    LET rated == SelectSeq(variants, LAMBDA v : Has(v, "bitrate"))
    IN  IF rated = <<>> THEN best
        ELSE [url |-> rated[1].url, bitrate |-> rated[1].bitrate]

RECURSIVE BestVariant(_, _)
\* lines 547-554: [url, bitrate] of the best variant seen, bitrate -1 for none
BestVariant(variants, best) ==
    IF variants = <<>> THEN best
    ELSE LET variant == Head(variants)
         IN  BestVariant(Tail(variants),
                         IF Has(variant, "bitrate") /\ variant.bitrate > best.bitrate
                         THEN [url |-> variant.url, bitrate |-> variant.bitrate]
                         ELSE best)

\* a variant: the file is copied whether or not the output has it
CopyMediaAlways(acc, filename) ==
    IF filename \in acc.unreadable THEN [acc EXCEPT !.raised = TRUE]
    ELSE [acc EXCEPT !.output = @ \cup {filename}, !.copies = Append(@, filename)]

\* lines 522-523 and 540-541: shutil.copy, unless the output has the file; the
\* copy of an unreadable file raises before the destination is created
CopyMedia(acc, filename) ==
    IF filename \in acc.output THEN acc
    ELSE IF filename \in acc.unreadable THEN [acc EXCEPT !.raised = TRUE]
    ELSE [acc EXCEPT !.output = @ \cup {filename}, !.copies = Append(@, filename)]

\* a variant: the best variant is recorded once, with the first matched file
GlobbedFileOneSource(acc, media, filename) ==
    LET hasVariants == Has(media, "video_info") /\ Has(media.video_info, "variants")
        best == BestVariant(media.video_info.variants, [url |-> <<>>, bitrate |-> -1])
        copied == CopyMedia(acc, filename)
        recorded == \E k \in 1..Len(acc.sources) : acc.sources[k][2] = best.url
    IN  IF copied.raised THEN copied
        ELSE [copied EXCEPT
                !.markdown = @ \o RelUrl(filename)
                               \o <<" > Your browser does not support the video tag">>,
                !.sources = IF hasVariants /\ best.bitrate # -1 /\ ~recorded
                            THEN Append(@, <<OutputPath(filename), best.url>>)
                            ELSE @,
                !.warnings = IF hasVariants /\ best.bitrate = -1 THEN @ + 1 ELSE @]

\* lines 536-564: one file matched by the prefix glob
GlobbedFile(acc, media, filename) ==
    LET hasVariants == Has(media, "video_info") /\ Has(media.video_info, "variants")
        best == BestVariant(media.video_info.variants, [url |-> <<>>, bitrate |-> -1])
        copied == CopyMedia(acc, filename)
    IN  IF copied.raised THEN copied
        ELSE [copied EXCEPT
                !.markdown = @ \o RelUrl(filename)
                               \o <<" > Your browser does not support the video tag">>,
                !.sources = IF hasVariants /\ best.bitrate # -1
                            THEN Append(@, <<OutputPath(filename), best.url>>)
                            ELSE @,
                !.warnings = IF hasVariants /\ best.bitrate = -1 THEN @ + 1 ELSE @]

RECURSIVE GlobbedFiles(_, _, _)
\* line 535: the loop stops at the file whose copy raises
GlobbedFiles(acc, media, paths) ==
    IF paths = <<>> \/ acc.raised THEN acc
    ELSE GlobbedFiles(GlobbedFile(acc, media, Head(paths)), media, Tail(paths))

\* lines 521-529: the file named after the post and the remote file is there
ExactMatch(acc, archive_media_filename, original_filename) ==
    LET copied == CopyMedia(acc, archive_media_filename)
    IN  IF copied.raised THEN copied
        ELSE [copied EXCEPT
                !.markdown = @ \o RelUrl(archive_media_filename),
                !.sources = Append(@, <<OutputPath(archive_media_filename),
                                        BestQualityUrl(original_filename)>>)]

\* a variant: the files of the prefix glob are taken along with the exact file
MediaEntityGlobToo(acc, tweet, media, listing) ==
    IF ~(Has(media, "url") /\ Has(media, "media_url")) THEN acc
    ELSE LET original_filename == BaseName(media.media_url)
             archive_media_filename == tweet.id_str \o <<"-">> \o original_filename
             archive_media_paths == Glob(listing, tweet.id_str)
         IN  IF Len(archive_media_paths) > 0
             THEN GlobbedFiles(
                     IF \E i \in 1..Len(listing) : listing[i] = archive_media_filename
                     THEN ExactMatch(acc, archive_media_filename, original_filename)
                     ELSE acc,
                     media, archive_media_paths)
             ELSE [acc EXCEPT
                     !.markdown = @ \o tweet.entities.media[1].url,
                     !.warnings = @ + 1]

\* lines 512-569: one entity of extended_entities.media
MediaEntity(acc, tweet, media, listing) ==
    IF ~(Has(media, "url") /\ Has(media, "media_url")) THEN acc
    ELSE LET original_filename == BaseName(media.media_url)
             archive_media_filename == tweet.id_str \o <<"-">> \o original_filename
             archive_media_paths == Glob(listing, tweet.id_str)
         IN  IF \E i \in 1..Len(listing) : listing[i] = archive_media_filename
             THEN ExactMatch(acc, archive_media_filename, original_filename)
             ELSE IF Len(archive_media_paths) > 0
             THEN GlobbedFiles(acc, media, archive_media_paths)
             ELSE [acc EXCEPT
                     !.markdown = @ \o tweet.entities.media[1].url,
                     !.warnings = @ + 1]

RECURSIVE MediaEntities(_, _, _, _)
\* line 511: the loop stops at the entity whose copy raises
MediaEntities(acc, tweet, medias, listing) ==
    IF medias = <<>> \/ acc.raised THEN acc
    ELSE MediaEntities(MediaEntity(acc, tweet, Head(medias), listing),
                       tweet, Tail(medias), listing)

\* line 507-508
HasMedia(tweet) ==
    /\ Has(tweet, "entities") /\ Has(tweet.entities, "media")
    /\ Has(tweet, "extended_entities") /\ Has(tweet.extended_entities, "media")

\* the files of the two directories as _convert_tweet finds them
Files(listing, cannotCopy, output) ==
    [listing |-> listing, unreadable |-> cannotCopy, output |-> output]

\* lines 509-571: markdown, the files and the media sources after the post's media
ResolveMedia(tweet, files, sources) ==
    LET acc0 == [markdown |-> <<>>, output |-> files.output, copies |-> <<>>,
                 sources |-> sources, warnings |-> 0,
                 unreadable |-> files.unreadable, raised |-> FALSE]
    IN  IF HasMedia(tweet)
        THEN MediaEntities(acc0, tweet, tweet.extended_entities.media, files.listing)
        ELSE acc0

\* line 570: body_markdown.replace(original_url, "")
StripMediaUrl(tweet, body) ==
    IF HasMedia(tweet) THEN Replace(body, tweet.entities.media[1].url, <<>>) ELSE body

---------------------------------------------------------------------------
(* Identity side effects of a post, lines 576-591.                         *)

\* a variant: the reply target is registered whatever its id
RegisterReplyTargetAnyId(reg, tweet) ==
    IF /\ Has(tweet, "in_reply_to_user_id") /\ Has(tweet, "in_reply_to_screen_name")
       /\ tweet.in_reply_to_screen_name # None
    THEN Put(reg, tweet.in_reply_to_user_id, tweet.in_reply_to_screen_name)
    ELSE reg

\* lines 577-582
RegisterReplyTarget(reg, tweet) ==
    IF /\ Has(tweet, "in_reply_to_user_id") /\ Has(tweet, "in_reply_to_screen_name")
       /\ tweet.in_reply_to_screen_name # None
       /\ tweet.in_reply_to_user_id >= 0
    THEN Put(reg, tweet.in_reply_to_user_id, tweet.in_reply_to_screen_name)
    ELSE reg

\* lines 586-591; a null mention is a mention without keys
RegisterMention(reg, mention) ==
    IF /\ Has(mention, "id") /\ Has(mention, "screen_name")
       /\ mention.id >= 0
       /\ mention.screen_name # None
    THEN Put(reg, mention.id, mention.screen_name)
    ELSE reg

RECURSIVE RegisterMentions(_, _)
RegisterMentions(reg, mentions) ==
    IF mentions = <<>> THEN reg
    ELSE RegisterMentions(RegisterMention(reg, Head(mentions)), Tail(mentions))

\* lines 576-591: users after the post; a null user_mentions is an absent key
ExtractUsers(reg, tweet) ==
    LET afterReply == RegisterReplyTarget(reg, tweet)
    IN  IF Has(tweet, "entities") /\ Has(tweet.entities, "user_mentions")
        THEN RegisterMentions(afterReply, tweet.entities.user_mentions)
        ELSE afterReply

---------------------------------------------------------------------------
(* _convert_tweet as a whole.                                              *)

\* an exception leaves _convert_tweet: IndexError at lines 442 and 444,
\* KeyError at line 469, IndexError or KeyError at line 509
ConvertRaises(tweet) ==
    LET words == Split(tweet.full_text)
    IN  \/ words = <<>>
        \/ words[1] = RT /\ Len(words) < 2
        \/ BackfillApplies(tweet) /\ ~Has(tweet.entities, "urls")
        \/ HasMedia(tweet) /\ (tweet.entities.media = <<>>
                               \/ ~Has(tweet.entities.media[1], "url"))

\* the Tweet returned, with the registry, the files and the media sources it leaves
ConvertTweet(tweet, reg, files, sources) ==
    LET words    == Split(tweet.full_text)
        isRT     == words[1] = RT
        isReply  == Has(tweet, "in_reply_to_status_id")
        body1    == IF isRT THEN RetweetBody(words) ELSE JoinWords(words)
        body2    == ExpandLinks(tweet, body1)
        names    == Split(ReplyingTo(body2))
        body3    == IF isReply THEN ReplyBody(body2) ELSE body2
        media    == ResolveMedia(tweet, files, sources)
        body4    == StripMediaUrl(tweet, body3)
    IN  [tweet |->
           [tweet_type            |-> TweetType(isRT, isReply),
            retweeted_from        |-> IF isRT THEN RetweetedFrom(words[2]) ELSE None,
            replied_to_names      |-> IF isReply THEN names ELSE NoneList,
            replying_to_tweet     |->
                IF isReply
                THEN ReplyToTweetUrl(InReplyToScreenName(tweet, names),
                                     tweet.in_reply_to_status_id)
                ELSE None,
            tweet_data            |-> body4,
            tweet_url             |-> TweetUrl(user_name, tweet.id_str),
            tweets_attached_media |-> IF HasMedia(tweet) THEN media.markdown ELSE None],
         users    |-> ExtractUsers(reg, tweet),
         output   |-> media.output,
         sources  |-> media.sources,
         copies   |-> media.copies,
         warnings |-> media.warnings,
         raised   |-> media.raised]

---------------------------------------------------------------------------
(* The raw posts the model draws from.  A link of an entity occurs in the  *)
(* text as a whole word, as in the archives Twitter produces.              *)

MaxWords == 3

ShortUrl == <<"https://", "x">>
LongUrl == <<"https://", "X">>
MediaUrl == <<"https://", "p", "/", "m">>

Words == {RT, <<"@", "a">>, <<"@", "b", ":">>, <<"h">>, ShortUrl}

WordLists == UNION {[1..n -> Words] : n \in 0..MaxWords}

\* full_text of the words, laid out with single spaces or with runs of whitespace
Layout(words, wide) ==
    IF wide
    THEN <<" ">> \o Concat([i \in 1..Len(words) |-> words[i] \o <<" ", "\n">>])
    ELSE Concat([i \in 1..Len(words) |->
                    IF i = 1 THEN words[i] ELSE <<" ">> \o words[i]])

Texts == {Layout(w, wide) : w \in WordLists, wide \in BOOLEAN}

\* the functions with a domain D' \subseteq DOMAIN f that agree with f
Parts(f) == {[k \in D |-> f[k]] : D \in SUBSET DOMAIN f}

\* the reply fields of a post: none, or the status id with optional name and id
ReplyFields ==
    {<<>>} \cup
    {[in_reply_to_status_id |-> <<"7">>] @@ p :
        p \in UNION {Parts([in_reply_to_screen_name |-> n, in_reply_to_user_id |-> 2]) :
                        n \in {None, <<"b">>}}}

UrlLists == {<<>>, <<[url |-> ShortUrl, expanded_url |-> LongUrl]>>}
MentionLists == {<<[id |-> 1, screen_name |-> <<"a">>]>>}

\* entities and extended_entities of a post
EntityFields ==
    {<<>>} \cup
    {[entities |-> u] : u \in {<<>>} \cup {[urls |-> l] : l \in UrlLists}
                                    \cup {[user_mentions |-> l] : l \in MentionLists}}
    \cup
    {[entities |-> [media |-> <<[url |-> ShortUrl]>>] @@ u,
      extended_entities |-> [media |-> <<[url |-> ShortUrl, media_url |-> MediaUrl]>>]] :
        u \in {<<>>} \cup {[urls |-> l] : l \in UrlLists}}

RawTweets ==
    {[full_text |-> t, id_str |-> <<"9">>] @@ r @@ e :
        t \in Texts, r \in ReplyFields, e \in EntityFields}

\* the variants of a video: none; rated 0, 320000 and 180000; unrated; rated 0
\* after an unrated one; two variants of the highest rate
VariantUrl(c) == <<"https://", "v", "/", c>>
VariantLists ==
    {<<>>,
     <<[url |-> VariantUrl("a"), bitrate |-> 0],
       [url |-> VariantUrl("b"), bitrate |-> 320000],
       [url |-> VariantUrl("c"), bitrate |-> 180000]>>,
     <<[url |-> VariantUrl("a")]>>,
     <<[url |-> VariantUrl("a")], [url |-> VariantUrl("b"), bitrate |-> 0]>>,
     <<[url |-> VariantUrl("a"), bitrate |-> 180000],
       [url |-> VariantUrl("b"), bitrate |-> 320000],
       [url |-> VariantUrl("c"), bitrate |-> 320000]>>}

\* an entity of extended_entities.media: a picture, or a video with its variants
MediaFields(c) ==
    {[url |-> ShortUrl, media_url |-> <<"https://", "p", "/", c>>]}
    \cup {[url |-> ShortUrl, media_url |-> <<"https://", "p", "/", c>>,
           video_info |-> [variants |-> v]] : v \in VariantLists}

\* the media lists of a post: one entity, or one followed by a second picture
ExtendedMedia ==
    {<<m>> : m \in MediaFields("m")}
    \cup {<<m, n>> : m \in MediaFields("m"),
                     n \in {[url |-> ShortUrl],
                            [url |-> ShortUrl, media_url |-> <<"https://", "p", "/", "n">>]}}

\* posts with media: the link alone, or after a word
MediaTweets ==
    {[full_text |-> t, id_str |-> <<"9">>,
      entities |-> [media |-> <<[url |-> ShortUrl]>>],
      extended_entities |-> [media |-> x]] :
        t \in {ShortUrl, <<"h", " ">> \o ShortUrl}, x \in ExtendedMedia}

\* a post without media that follows in the file
NextPost == [full_text |-> <<"h">>, id_str |-> <<"8">>]

\* posts with several link entities: two links; two entities with one short
\* form; an expanded form that holds the short form of the entity after it, or
\* of the entity before it; an entity without expanded form
OtherShortUrl == <<"https://", "y">>
OtherLongUrl == <<"https://", "Y">>
ChainedUrl == <<"https://", "y", "/", "k">>
LinkLists ==
    {<<[url |-> ShortUrl, expanded_url |-> LongUrl],
       [url |-> OtherShortUrl, expanded_url |-> OtherLongUrl]>>,
     <<[url |-> ShortUrl, expanded_url |-> LongUrl],
       [url |-> ShortUrl, expanded_url |-> OtherLongUrl]>>,
     <<[url |-> ShortUrl, expanded_url |-> ChainedUrl],
       [url |-> OtherShortUrl, expanded_url |-> OtherLongUrl]>>,
     <<[url |-> OtherShortUrl, expanded_url |-> OtherLongUrl],
       [url |-> ShortUrl, expanded_url |-> ChainedUrl]>>,
     <<[url |-> ShortUrl],
       [url |-> OtherShortUrl, expanded_url |-> OtherLongUrl]>>}
LinkWords == {ShortUrl, OtherShortUrl, <<"h">>}
LinkTexts == {Layout(w, FALSE) : w \in UNION {[1..n -> LinkWords] : n \in 1..2}}
LinkTweets ==
    {[full_text |-> t, id_str |-> <<"9">>, entities |-> [urls |-> l]] :
        t \in LinkTexts, l \in LinkLists}

\* posts with the ids and handles of accounts: a reply target with the id -1, 0
\* or 2 and a handle or null; mentions with a negative id, the id 0, a null
\* handle, a missing key, and a null mention
IdentityReplies ==
    {[in_reply_to_status_id |-> <<"7">>, in_reply_to_user_id |-> id,
      in_reply_to_screen_name |-> n] : id \in {-1, 0, 2}, n \in {None, <<"b">>}}
IdentityMentions ==
    {<<>>,
     <<[id |-> -1, screen_name |-> <<"a">>]>>,
     <<[id |-> 0, screen_name |-> <<"a">>], [id |-> 3, screen_name |-> None]>>,
     <<[id |-> 3], [screen_name |-> <<"c">>], <<>>, [id |-> 2, screen_name |-> <<"c">>]>>}
IdentityTweets ==
    {[full_text |-> <<"h">>, id_str |-> <<"9">>, entities |-> [user_mentions |-> m]] @@ r :
        r \in IdentityReplies, m \in IdentityMentions}

\* listings of dir_input_media: the files 9-m and 9-n named after the post and
\* the remote file, the file 9-v of a video, the file 90-w of another post
MediaFile(c) == <<"9", "-", c>>
OtherFile == <<"9", "0", "-", "w">>
MediaTweetListings ==
    {<<>>, <<MediaFile("m")>>, <<MediaFile("v")>>,
     <<MediaFile("m"), MediaFile("v")>>, <<MediaFile("v"), OtherFile>>,
     <<MediaFile("n"), MediaFile("v")>>}

\* the files the copy fails on: none, or one
UnreadableSets(listing) == {{}} \cup {{listing[i]} : i \in 1..Len(listing)}

---------------------------------------------------------------------------
(* __init__, lines 134-150: the stage that follows a stage.                *)

\* a variant: the bulk lookup runs before the posts are read
NextStageLookupFirst(stage) ==
    CASE stage = "init"                      -> "bulk_lookup"
      [] stage = "bulk_lookup"               -> "get_tweets"
      [] stage = "get_tweets"                -> "get_following"
      [] stage = "get_following"             -> "get_followers"
      [] stage = "get_followers"             -> "get_direct_messages"
      [] stage = "get_direct_messages"       -> "get_group_direct_messages"
      [] stage = "get_group_direct_messages" -> "constructed"

NextStage(stage) ==
    CASE stage = "init"                      -> "get_tweets"
      [] stage = "get_tweets"                -> "bulk_lookup"
      [] stage = "bulk_lookup"               -> "get_following"
      [] stage = "get_following"             -> "get_followers"
      [] stage = "get_followers"             -> "get_direct_messages"
      [] stage = "get_direct_messages"       -> "get_group_direct_messages"
      [] stage = "get_group_direct_messages" -> "constructed"

---------------------------------------------------------------------------
(* _get_tweets, lines 404-420: one step per post of the archive.           *)

\* line 416, for the next post of the file; an exception leaves _get_tweets and
\* __init__, and the files copied before it stay in the output
ConvertNextTweet ==
    /\ pc = "get_tweets"
    /\ Len(tweets) < Len(tweetsIn)
    /\ LET tweet == tweetsIn[Len(tweets) + 1]
           r == ConvertTweet(tweet, users, Files(input_media, unreadable, output_media),
                             media_sources)
       IN  IF ConvertRaises(tweet)
           THEN /\ pc' = "raised"
                /\ UNCHANGED <<tweets, users, output_media, media_sources, warnings,
                               copies>>
           ELSE /\ output_media' = r.output
                /\ warnings' = warnings + r.warnings
                /\ copies' = copies \o r.copies
                /\ IF r.raised
                   THEN /\ pc' = "raised"
                        /\ UNCHANGED <<tweets, users, media_sources>>
                   ELSE /\ tweets' = Append(tweets, r.tweet)
                        /\ users' = r.users
                        /\ media_sources' = r.sources
                        /\ pc' = pc
    /\ UNCHANGED <<tweetsIn, followingIn, followerIn, dmsIn, groupsIn, input_media,
                   unreadable, previous, dm_media, group_media,
                   service, user_ids, retrieved, request, sent, lookup, following,
                   followers, direct_messages, group_direct_messages, info>>

\* line 420: every post is converted, __init__ goes on to line 138
GetTweetsReturn ==
    /\ pc = "get_tweets"
    /\ Len(tweets) = Len(tweetsIn)
    /\ pc' = NextStage(pc)
    /\ UNCHANGED <<tweetsIn, followingIn, followerIn, dmsIn, groupsIn, input_media,
                   unreadable, previous, warnings, copies,
                   dm_media, group_media,
                   service, users, tweets, media_sources, output_media, user_ids,
                   retrieved, request, sent, lookup, following, followers,
                   direct_messages, group_direct_messages, info>>

\* the part of the state a run of _get_tweets starts from
InitRun ==
    /\ pc = NextStage("init")
    /\ users = <<>>
    /\ tweets = <<>>
    /\ media_sources = <<>>
    /\ output_media = {}
    /\ warnings = 0
    /\ copies = <<>>
    /\ user_ids = <<>>
    /\ retrieved = <<>>
    /\ request = <<>>
    /\ sent = <<>>
    /\ lookup = "none"
    /\ following = <<>>
    /\ followers = <<>>
    /\ direct_messages = <<>>
    /\ group_direct_messages = <<>>
    /\ info = <<>>

\* __init__ is run once more on the directory the archive was extracted into
\* (lines 159-161): the files under dir_output_media are those the run before
\* left, everything else starts afresh.  The second run is followed for the
\* archives with a post of MediaTweets.
RunAgain ==
    /\ pc \in {NextStage("get_tweets"), "raised"}
    /\ previous = <<>>
    /\ \E i \in 1..Len(tweetsIn) : tweetsIn[i] \in MediaTweets
    /\ previous' = <<[pc |-> pc, tweets |-> tweets, output_media |-> output_media,
                      copies |-> copies]>>
    /\ pc' = NextStage("init")
    /\ users' = <<>>
    /\ tweets' = <<>>
    /\ media_sources' = <<>>
    /\ warnings' = 0
    /\ copies' = <<>>
    /\ UNCHANGED <<tweetsIn, followingIn, followerIn, dmsIn, groupsIn, input_media,
                   unreadable, dm_media, group_media, service, output_media,
                   user_ids, retrieved, request, sent, lookup, following,
                   followers, direct_messages, group_direct_messages, info>>

MediaListings == {<<>>, <<<<"9", "-", "m">>>>}

\* one post of RawTweets or of LinkTweets in an otherwise empty archive, one or
\* two posts of IdentityTweets, or one post of MediaTweets, alone or followed
\* by NextPost
InitTweet ==
    /\ InitRun
    /\ previous = <<>>
    /\ \/ \E t \in RawTweets :
             /\ tweetsIn = <<t>>
             /\ input_media \in IF HasMedia(t) THEN MediaListings ELSE {<<>>}
             /\ unreadable = {}
       \/ \E t \in LinkTweets :
             /\ tweetsIn = <<t>>
             /\ input_media = <<>>
             /\ unreadable = {}
       \/ \E t, u \in IdentityTweets :
             /\ tweetsIn \in {<<t>>, <<t, u>>}
             /\ input_media = <<>>
             /\ unreadable = {}
       \/ \E t \in MediaTweets :
             /\ tweetsIn \in {<<t>>, <<t, NextPost>>}
             /\ input_media \in MediaTweetListings
             /\ unreadable \in UnreadableSets(input_media)
    /\ followingIn = <<>>
    /\ followerIn = <<>>
    /\ dmsIn = <<>>
    /\ groupsIn = <<>>
    /\ dm_media = <<>>
    /\ group_media = <<>>
    /\ service = "none"

NextTweet == ConvertNextTweet \/ GetTweetsReturn \/ RunAgain

SpecTweet == InitTweet /\ [][NextTweet]_vars

---------------------------------------------------------------------------
(* The id enumerations of _bulk_look_up_for_user_handles, lines 237-349.   *)

Range(seq) == {seq[i] : i \in 1..Len(seq)}

\* the ids of S in ascending order
Ascending(S) ==
    LET rank == [x \in S |-> Cardinality({y \in S : y < x})]
    IN  [i \in 1..Cardinality(S) |-> CHOOSE x \in S : rank[x] = i - 1]

Reverse(seq) == [i \in 1..Len(seq) |-> seq[Len(seq) + 1 - i]]

\* a set is enumerated in any order when it is small
MaxPermuted == 3

\* list(S), for S in Python: the orders in which a set of ids is iterated.  The
\* order follows the hashes of the id strings; every order of a set of at most
\* MaxPermuted ids is kept, the two sorted ones of a larger set.
Orders(S) ==
    IF Cardinality(S) <= MaxPermuted
    THEN {f \in [1..Cardinality(S) -> S] : Range(f) = S}
    ELSE {Ascending(S), Reverse(Ascending(S))}

\* lines 272-275 and 613-616: the account ids of following.js, in file order
FollowingIds(json) ==
    LET listed == SelectSeq(json, LAMBDA f : Has(f, "following")
                                              /\ Has(f.following, "accountId"))
    IN  [i \in 1..Len(listed) |-> listed[i].following.accountId]

\* lines 287-290 and 629-632: the account ids of follower.js, in file order
FollowerIds(json) ==
    LET listed == SelectSeq(json, LAMBDA f : Has(f, "follower")
                                              /\ Has(f.follower, "accountId"))
    IN  [i \in 1..Len(listed) |-> listed[i].follower.accountId]

\* lines 304, 335, 649, 735
IsConversation(conversation) ==
    Has(conversation, "dmConversation")
        /\ Has(conversation.dmConversation, "conversationId")

\* lines 302-309: conversationId is kept as its parts between '-'
DmUserIds(json) ==
    UNION {Range(json[i].dmConversation.conversationId) :
              i \in {k \in 1..Len(json) : IsConversation(json[k])}}

\* line 307: user1_id, user2_id = conversation_id.split('-') raises ValueError
DmUserIdsRaises(json) ==
    \E i \in 1..Len(json) :
        IsConversation(json[i]) /\ Len(json[i].dmConversation.conversationId) # 2

\* a variant: a message-create event adds its sender only when it becomes a message
EventUserIdsOfMessages(message) ==
    IF Has(message, "messageCreate")
    THEN IF {"senderId", "text", "createdAt"} \subseteq DOMAIN message.messageCreate
         THEN {message.messageCreate.senderId} ELSE {}
    ELSE IF Has(message, "joinConversation")
    THEN {message.joinConversation.initiatingUserId}
            \cup Range(message.joinConversation.participantsSnapshot)
    ELSE IF Has(message, "participantsJoin")
    THEN {message.participantsJoin.initiatingUserId}
            \cup Range(message.participantsJoin.userIds)
    ELSE {}

\* lines 339-348: the ids one event adds to group_user_ids
EventUserIds(message) ==
    IF Has(message, "messageCreate")
    THEN {message.messageCreate.senderId}
    ELSE IF Has(message, "joinConversation")
    THEN {message.joinConversation.initiatingUserId}
            \cup Range(message.joinConversation.participantsSnapshot)
    ELSE IF Has(message, "participantsJoin")
    THEN {message.participantsJoin.initiatingUserId}
            \cup Range(message.participantsJoin.userIds)
    ELSE {}

\* a KeyError at lines 340-347
EventUserIdsRaises(message) ==
    IF Has(message, "messageCreate")
    THEN ~Has(message.messageCreate, "senderId")
    ELSE IF Has(message, "joinConversation")
    THEN ~(Has(message.joinConversation, "initiatingUserId")
             /\ Has(message.joinConversation, "participantsSnapshot"))
    ELSE IF Has(message, "participantsJoin")
    THEN ~(Has(message.participantsJoin, "initiatingUserId")
             /\ Has(message.participantsJoin, "userIds"))
    ELSE FALSE

\* lines 304-306, 335-338, 649-652 and 735-745: the events of a conversation
\* that is gone through
ConversationMessages(conversation) ==
    IF IsConversation(conversation) /\ Has(conversation.dmConversation, "messages")
    THEN conversation.dmConversation.messages
    ELSE <<>>

\* _find_group_dm_conversation_participant_ids, lines 329-349
FindGroupDmConversationParticipantIds(conversation) ==
    UNION {EventUserIds(ConversationMessages(conversation)[k]) :
              k \in 1..Len(ConversationMessages(conversation))}

FindParticipantIdsRaises(conversation) ==
    \E k \in 1..Len(ConversationMessages(conversation)) :
        EventUserIdsRaises(ConversationMessages(conversation)[k])

\* lines 322-327
GroupDmUserIds(json) ==
    UNION {FindGroupDmConversationParticipantIds(json[i]) : i \in 1..Len(json)}

\* a variant: the ids found only in followers are not added
CollectedUserIdsNoFollowers(following_ids, follower_ids, dms_user_ids, group_dms_user_ids) ==
    following_ids \cup dms_user_ids \cup group_dms_user_ids

\* lines 252-258: the set behind collected_user_ids
CollectedUserIds(following_ids, follower_ids, dms_user_ids, group_dms_user_ids) ==
    LET without_followers == following_ids \cup dms_user_ids \cup group_dms_user_ids
        only_in_followers == follower_ids \ without_followers
    IN  without_followers \cup only_in_followers

\* a variant: known ids are requested again
FilterKnownKeepsAll(ids, reg) == ids

\* line 354: filtered_user_ids
FilterKnown(ids, reg) == SelectSeq(ids, LAMBDA id : id \notin DOMAIN reg)

---------------------------------------------------------------------------
(* Follow edges, lines 606-636.                                            *)

\* lines 618 and 634
FollowHandle(reg, id) == IF id \in DOMAIN reg THEN reg[id] ELSE UNKNOWN_HANDLE

\* a variant: the edges are listed from the last id to the first
FollowUsersLastFirst(ids, reg) ==
    [i \in 1..Len(ids) |->
        [user_handle |-> FollowHandle(reg, ids[Len(ids) + 1 - i]),
         user_profile_url |-> UserUrl(ids[Len(ids) + 1 - i])]]

\* lines 617-619 and 633-635: one User per id, in order
FollowUsers(ids, reg) ==
    [i \in 1..Len(ids) |->
        [user_handle |-> FollowHandle(reg, ids[i]), user_profile_url |-> UserUrl(ids[i])]]

---------------------------------------------------------------------------
(* Messages of direct-messages.js and direct-messages-group.js, lines      *)
(* 638-816.                                                                *)

RECURSIVE SplitLinesAcc(_, _, _)
SplitLinesAcc(rest, cur, out) ==
    IF rest = <<>>
    THEN IF cur = <<>> THEN out ELSE Append(out, cur)
    ELSE IF Head(rest) = "\n"
         THEN SplitLinesAcc(Tail(rest), <<>>, Append(out, cur))
         ELSE SplitLinesAcc(Tail(rest), Append(cur, Head(rest)), out)

\* str.splitlines()
SplitLines(s) == SplitLinesAcc(s, <<>>, <<>>)

RECURSIVE Join(_, _)
\* sep.join(parts)
Join(sep, parts) ==
    IF parts = <<>> THEN <<>>
    ELSE IF Len(parts) = 1 THEN parts[1]
    ELSE parts[1] \o sep \o Join(sep, Tail(parts))

\* a variant: messages use the sentinel of the follow edges
MessageHandleSentinel(reg, id) == IF id \in DOMAIN reg THEN reg[id] ELSE UNKNOWN_HANDLE

\* lines 709-712, 739-742 and 803-804
MessageHandle(reg, id) == IF id \in DOMAIN reg THEN reg[id] ELSE UserUrl(id)

RECURSIVE ExpandMessageUrls(_, _)
\* lines 661-665 and 753-757
ExpandMessageUrls(body, urls) ==
    IF urls = <<>> THEN body
    ELSE LET url == Head(urls)
         IN  ExpandMessageUrls(IF Has(url, "url") /\ Has(url, "expanded")
                               THEN Replace(body, url.url, url.expanded)
                               ELSE body,
                               Tail(urls))

\* lines 659-669 and 751-761: body_markdown before the media of the message
MessageBody(message_create) ==
    JoinWords(Split(ExpandMessageUrls(message_create.text,
                                      IF Has(message_create, "urls")
                                      THEN message_create.urls ELSE <<>>)))

\* lines 671-673 and 764-766
HasMessageMedia(message_create) ==
    /\ Has(message_create, "mediaUrls")
    /\ Len(message_create.mediaUrls) = 1
    /\ Has(message_create, "urls")

\* IndexError or KeyError at lines 674-675 and 767-768
MessageMediaRaises(message_create) ==
    /\ HasMessageMedia(message_create)
    /\ \/ message_create.urls = <<>>
       \/ ~Has(message_create.urls[1], "expanded")
       \/ ~Has(message_create, "id")

RECURSIVE GlobbedMessageFiles(_, _, _)
\* lines 693-702 and 786-795: acc is [body, output]
GlobbedMessageFiles(acc, original_expanded_url, paths) ==
    IF paths = <<>> THEN acc
    ELSE GlobbedMessageFiles(
             [body   |-> Replace(acc.body, original_expanded_url,
                                 OutputPath(Head(paths))
                                     \o <<" Your browser does not support the video tag">>),
              output |-> acc.output \cup {Head(paths)}],
             original_expanded_url, Tail(paths))

\* lines 686 and 779: image_markdown
ImageMarkdown(new_url, group) ==
    IF group THEN <<"\n", "![](">> \o new_url \o <<")", "\n">> ELSE new_url

\* lines 671-705 and 764-798: the body and the output files after the media
MessageMedia(message_create, body, listing, output, group) ==
    IF ~HasMessageMedia(message_create) THEN [body |-> body, output |-> output]
    ELSE LET original_expanded_url == message_create.urls[1].expanded
             archive_media_filename ==
                 message_create.id \o <<"-">> \o BaseName(message_create.mediaUrls[1])
             archive_media_paths == Glob(listing, message_create.id)
         IN  IF \E i \in 1..Len(listing) : listing[i] = archive_media_filename
             THEN [body   |-> Replace(body, original_expanded_url,
                                      ImageMarkdown(OutputPath(archive_media_filename),
                                                    group)),
                   output |-> output \cup {archive_media_filename}]
             ELSE IF Len(archive_media_paths) > 0
             THEN GlobbedMessageFiles([body |-> body, output |-> output],
                                      original_expanded_url, archive_media_paths)
             ELSE [body |-> body, output |-> output]

\* line 656: all(tag in message_create for tag in [...])
IsDirectMessage(message) ==
    /\ Has(message, "messageCreate")
    /\ {"senderId", "recipientId", "text", "createdAt"} \subseteq DOMAIN message.messageCreate

\* line 749
IsGroupMessage(message) ==
    /\ Has(message, "messageCreate")
    /\ {"senderId", "text", "createdAt"} \subseteq DOMAIN message.messageCreate

\* lines 657-717: acc is [dms, output]
ConvertDirectMessage(acc, message_create, reg, listing) ==
    LET media == MessageMedia(message_create, MessageBody(message_create),
                              listing, acc.output, FALSE)
    IN  [dms    |-> Append(acc.dms,
                      [dm_from |-> MessageHandle(reg, message_create.senderId),
                       dm_to   |-> MessageHandle(reg, message_create.recipientId),
                       dm_data |-> Join(<<"\n">>, SplitLines(media.body)),
                       dm_at   |-> message_create.createdAt]),
         output |-> media.output]

RECURSIVE ConvertConversation(_, _, _, _)
\* lines 652-717
ConvertConversation(acc, messages, reg, listing) ==
    IF messages = <<>> THEN acc
    ELSE ConvertConversation(
             IF IsDirectMessage(Head(messages))
             THEN ConvertDirectMessage(acc, Head(messages).messageCreate, reg, listing)
             ELSE acc,
             Tail(messages), reg, listing)

RECURSIVE ConvertConversationsLastFirst(_, _, _, _)
\* a variant: the conversations are gone through from the last to the first
ConvertConversationsLastFirst(acc, json, reg, listing) ==
    IF json = <<>> THEN acc
    ELSE ConvertConversationsLastFirst(
             ConvertConversation(acc, ConversationMessages(json[Len(json)]), reg, listing),
             SubSeq(json, 1, Len(json) - 1), reg, listing)

RECURSIVE ConvertConversations(_, _, _, _)
\* lines 648-719: _get_direct_messages
ConvertConversations(acc, json, reg, listing) ==
    IF json = <<>> THEN acc
    ELSE ConvertConversations(
             ConvertConversation(acc, ConversationMessages(Head(json)), reg, listing),
             Tail(json), reg, listing)

\* an exception leaves _get_direct_messages
DirectMessagesRaise(json) ==
    \E i \in 1..Len(json) : \E k \in 1..Len(ConversationMessages(json[i])) :
        /\ IsDirectMessage(ConversationMessages(json[i])[k])
        /\ MessageMediaRaises(ConversationMessages(json[i])[k].messageCreate)

\* a variant: the message is put in front of the messages before it
ConvertGroupMessageInFront(acc, message_create, reg, listing) ==
    LET media == MessageMedia(message_create, MessageBody(message_create),
                              listing, acc.output, TRUE)
    IN  [acc EXCEPT
           !.group_dms =
               <<[group_dm_from |-> MessageHandle(reg, message_create.senderId),
                  group_dm_data |-> Join(<<"\n", ">">>, SplitLines(media.body)),
                  group_dm_at   |-> message_create.createdAt]>> \o @,
           !.output = media.output]

\* lines 750-808: acc is [group_name, group_dms, output]
ConvertGroupMessage(acc, message_create, reg, listing) ==
    LET media == MessageMedia(message_create, MessageBody(message_create),
                              listing, acc.output, TRUE)
    IN  [acc EXCEPT
           !.group_dms = Append(@,
               [group_dm_from |-> MessageHandle(reg, message_create.senderId),
                group_dm_data |-> Join(<<"\n", ">">>, SplitLines(media.body)),
                group_dm_at   |-> message_create.createdAt]),
           !.output = media.output]

RECURSIVE ConvertGroupMessagesFirstName(_, _, _, _)
\* a variant: the name of the first name update is kept
ConvertGroupMessagesFirstName(acc, messages, reg, listing) ==
    IF messages = <<>> THEN acc
    ELSE LET message == Head(messages)
         IN  ConvertGroupMessagesFirstName(
                 IF Has(message, "messageCreate")
                 THEN IF IsGroupMessage(message)
                      THEN ConvertGroupMessage(acc, message.messageCreate, reg, listing)
                      ELSE acc
                 ELSE IF Has(message, "conversationNameUpdate")
                         /\ Has(message.conversationNameUpdate, "name")
                         /\ acc.group_name = None
                 THEN [acc EXCEPT !.group_name = message.conversationNameUpdate.name]
                 ELSE acc,
                 Tail(messages), reg, listing)

RECURSIVE ConvertGroupMessages(_, _, _, _)
\* lines 745-812
ConvertGroupMessages(acc, messages, reg, listing) ==
    IF messages = <<>> THEN acc
    ELSE LET message == Head(messages)
         IN  ConvertGroupMessages(
                 IF Has(message, "messageCreate")
                 THEN IF IsGroupMessage(message)
                      THEN ConvertGroupMessage(acc, message.messageCreate, reg, listing)
                      ELSE acc
                 ELSE IF Has(message, "conversationNameUpdate")
                         /\ Has(message.conversationNameUpdate, "name")
                 THEN [acc EXCEPT !.group_name = message.conversationNameUpdate.name]
                 ELSE acc,
                 Tail(messages), reg, listing)

\* lines 731-815: one conversation, its participant ids iterated in the order given
ConvertGroupConversation(conversation, participants, reg, listing, output) ==
    LET acc == ConvertGroupMessages(
                   [group_name |-> None, group_dms |-> <<>>, output |-> output],
                   ConversationMessages(conversation), reg, listing)
    IN  [group  |-> [group_name        |-> acc.group_name,
                     group_dms         |-> acc.group_dms,
                     group_participant |->
                         [i \in 1..Len(participants) |->
                             MessageHandle(reg, participants[i])]],
         output |-> acc.output]

\* an exception leaves _get_group_direct_messages in this conversation
GroupConversationRaises(conversation) ==
    \/ FindParticipantIdsRaises(conversation)
    \/ \E k \in 1..Len(ConversationMessages(conversation)) :
          /\ IsGroupMessage(ConversationMessages(conversation)[k])
          /\ MessageMediaRaises(ConversationMessages(conversation)[k].messageCreate)

---------------------------------------------------------------------------
(* The lookup service and _lookup_users, lines 351-402.                    *)

\* a variant: a batch holds one id more
max_batch_one_more == 100 + 1

\* line 388
max_batch == 100

\* the screen_name of the user object the service returns for an id, <<>> when
\* it returns no object for the id
ScreenName(mode, id) ==
    IF mode = "all" THEN <<"s", ToString(id)>>
    ELSE IF id % 2 = 1 THEN <<"s", ToString(id)>>
    ELSE IF id % 4 = 0 THEN None
    ELSE <<>>

\* json.loads(response.content) for a batch: the user objects, in request order
Response(mode, batch) ==
    LET returned == SelectSeq(batch, LAMBDA id : ScreenName(mode, id) # <<>>)
    IN  [i \in 1..Len(returned) |->
            [id_str |-> returned[i], screen_name |-> ScreenName(mode, returned[i])]]

\* lines 400-401: users[user['id_str']] = user, for each user of the response
StoreUsers(found, response_json) ==
    LET answered == {response_json[i].id_str : i \in 1..Len(response_json)}
        last(id) == CHOOSE i \in 1..Len(response_json) :
                        /\ response_json[i].id_str = id
                        /\ \A j \in (i + 1)..Len(response_json) :
                              response_json[j].id_str # id
    IN  [id \in DOMAIN found \cup answered |->
            IF id \in answered THEN response_json[last(id)] ELSE found[id]]

\* lines 365-367: the registry after the loop over retrieved_users
RegisterRetrieved(reg, retrieved_users) ==
    LET named == {id \in DOMAIN retrieved_users :
                     retrieved_users[id].screen_name # None}
    IN  [id \in DOMAIN reg \cup named |->
            IF id \in named THEN retrieved_users[id].screen_name ELSE reg[id]]

\* a variant: the exception is not caught and leaves __init__
AfterLookupErrorPropagates == "raised"

\* lines 368-369: the exception is logged, _lookup_users returns to line 141
AfterLookupError == NextStage("bulk_lookup")

\* lines 237-262 and 351-357
BulkLookUpForUserHandles ==
    /\ pc = "bulk_lookup"
    /\ IF DmUserIdsRaises(dmsIn)
          \/ \E i \in 1..Len(groupsIn) : FindParticipantIdsRaises(groupsIn[i])
       THEN /\ pc' = "raised"
            /\ UNCHANGED <<request, user_ids, lookup>>
       ELSE \E collected_user_ids \in
                 Orders(CollectedUserIds(Range(FollowingIds(followingIn)),
                                         Range(FollowerIds(followerIn)),
                                         DmUserIds(dmsIn), GroupDmUserIds(groupsIn))) :
               LET filtered_user_ids == FilterKnown(collected_user_ids, users)
               IN  /\ request' = filtered_user_ids
                   /\ user_ids' = filtered_user_ids
                   /\ IF filtered_user_ids = <<>>
                      THEN lookup' = "nothing" /\ pc' = NextStage(pc)
                      ELSE lookup' = lookup /\ pc' = "guest_token"
    /\ UNCHANGED <<tweetsIn, followingIn, followerIn, dmsIn, groupsIn, input_media,
                   unreadable, previous, warnings, copies,
                   dm_media, group_media, service, users, tweets, media_sources,
                   output_media, retrieved, sent, following, followers,
                   direct_messages, group_direct_messages, info>>

\* lines 371-381: the guest token arrives, or the call or the check raises
GetTwitterApiGuestToken ==
    /\ pc = "guest_token"
    /\ \E guest_token \in {"token", ""} :
          IF guest_token = ""
          THEN lookup' = "token_failed" /\ pc' = AfterLookupError
          ELSE lookup' = lookup /\ pc' = "batch"
    /\ UNCHANGED <<tweetsIn, followingIn, followerIn, dmsIn, groupsIn, input_media,
                   unreadable, previous, warnings, copies,
                   dm_media, group_media, service, users, tweets, media_sources,
                   output_media, user_ids, retrieved, request, sent, following,
                   followers, direct_messages, group_direct_messages, info>>

\* lines 387-401: one turn of the while loop; after the last one lines 365-367
GetTwitterUsersBatch ==
    /\ pc = "batch"
    /\ LET user_id_batch == SubSeq(user_ids, 1,
                                   IF Len(user_ids) < max_batch THEN Len(user_ids)
                                   ELSE max_batch)
           rest == SubSeq(user_ids, max_batch + 1, Len(user_ids))
       IN  /\ sent' = Append(sent, user_id_batch)
           /\ \E status_code \in {200, 500} :
                 IF status_code # 200
                 THEN /\ lookup' = "batch_failed"
                      /\ pc' = AfterLookupError
                      /\ UNCHANGED <<user_ids, retrieved, users>>
                 ELSE /\ user_ids' = rest
                      /\ retrieved' = StoreUsers(retrieved, Response(service, user_id_batch))
                      /\ IF rest = <<>>
                         THEN /\ users' = RegisterRetrieved(users, retrieved')
                              /\ lookup' = "ok"
                              /\ pc' = NextStage("bulk_lookup")
                         ELSE UNCHANGED <<users, lookup, pc>>
    /\ UNCHANGED <<tweetsIn, followingIn, followerIn, dmsIn, groupsIn, input_media,
                   unreadable, previous, warnings, copies,
                   dm_media, group_media, service, tweets, media_sources,
                   output_media, request, following, followers, direct_messages,
                   group_direct_messages, info>>

---------------------------------------------------------------------------
(* The stages of __init__ after the lookup, and retrieve_information.      *)

\* lines 606-621
GetFollowingUsers ==
    /\ pc = "get_following"
    /\ following' = FollowUsers(FollowingIds(followingIn), users)
    /\ pc' = NextStage(pc)
    /\ UNCHANGED <<tweetsIn, followingIn, followerIn, dmsIn, groupsIn, input_media,
                   unreadable, previous, warnings, copies,
                   dm_media, group_media, service, users, tweets, media_sources,
                   output_media, user_ids, retrieved, request, sent, lookup,
                   followers, direct_messages, group_direct_messages, info>>

\* lines 623-636
GetFollowersUsers ==
    /\ pc = "get_followers"
    /\ followers' = FollowUsers(FollowerIds(followerIn), users)
    /\ pc' = NextStage(pc)
    /\ UNCHANGED <<tweetsIn, followingIn, followerIn, dmsIn, groupsIn, input_media,
                   unreadable, previous, warnings, copies,
                   dm_media, group_media, service, users, tweets, media_sources,
                   output_media, user_ids, retrieved, request, sent, lookup,
                   following, direct_messages, group_direct_messages, info>>

\* lines 638-719
GetDirectMessages ==
    /\ pc = "get_direct_messages"
    /\ IF DirectMessagesRaise(dmsIn)
       THEN /\ pc' = "raised"
            /\ UNCHANGED <<direct_messages, output_media>>
       ELSE LET r == ConvertConversations([dms |-> <<>>, output |-> output_media],
                                          dmsIn, users, dm_media)
            IN  /\ direct_messages' = r.dms
                /\ output_media' = r.output
                /\ pc' = NextStage(pc)
    /\ UNCHANGED <<tweetsIn, followingIn, followerIn, dmsIn, groupsIn, input_media,
                   unreadable, previous, warnings, copies,
                   dm_media, group_media, service, users, tweets, media_sources,
                   user_ids, retrieved, request, sent, lookup, following, followers,
                   group_direct_messages, info>>

\* lines 731-815, for the next conversation of the file; the set of participant
\* ids is iterated in one of its orders
ConvertNextGroupConversation ==
    /\ pc = "get_group_direct_messages"
    /\ Len(group_direct_messages) < Len(groupsIn)
    /\ LET conversation == groupsIn[Len(group_direct_messages) + 1]
       IN  IF GroupConversationRaises(conversation)
           THEN /\ pc' = "raised"
                /\ UNCHANGED <<group_direct_messages, output_media>>
           ELSE \E participants \in
                     Orders(IF IsConversation(conversation)
                            THEN FindGroupDmConversationParticipantIds(conversation)
                            ELSE {}) :
                   LET r == ConvertGroupConversation(conversation, participants, users,
                                                     group_media, output_media)
                   IN  /\ group_direct_messages' = Append(group_direct_messages, r.group)
                       /\ output_media' = r.output
                       /\ pc' = pc
    /\ UNCHANGED <<tweetsIn, followingIn, followerIn, dmsIn, groupsIn, input_media,
                   unreadable, previous, warnings, copies,
                   dm_media, group_media, service, users, tweets, media_sources,
                   user_ids, retrieved, request, sent, lookup, following, followers,
                   direct_messages, info>>

\* line 817: every conversation is converted, __init__ returns
GetGroupDirectMessagesReturn ==
    /\ pc = "get_group_direct_messages"
    /\ Len(group_direct_messages) = Len(groupsIn)
    /\ pc' = NextStage(pc)
    /\ UNCHANGED <<tweetsIn, followingIn, followerIn, dmsIn, groupsIn, input_media,
                   unreadable, previous, warnings, copies,
                   dm_media, group_media, service, users, tweets, media_sources,
                   output_media, user_ids, retrieved, request, sent, lookup,
                   following, followers, direct_messages, group_direct_messages,
                   info>>

\* retrieve_information, lines 837-848
RetrieveInformation ==
    /\ pc = "constructed"
    /\ info' = [user_name       |-> user_name,
                following       |-> following,
                followers       |-> followers,
                tweets          |-> tweets,
                dms             |-> direct_messages,
                groups_dms      |-> group_direct_messages,
                following_count |-> Len(following),
                follower_count  |-> Len(followers)]
    /\ pc' = "done"
    /\ UNCHANGED <<tweetsIn, followingIn, followerIn, dmsIn, groupsIn, input_media,
                   unreadable, previous, warnings, copies,
                   dm_media, group_media, service, users, tweets, media_sources,
                   output_media, user_ids, retrieved, request, sent, lookup,
                   following, followers, direct_messages, group_direct_messages>>

---------------------------------------------------------------------------
(* The archives the pipeline is run on.                                    *)

\* ids of the long following list: more than one batch of max_batch
BigN == 101

PlainTweet == [full_text |-> <<"h">>, id_str |-> <<"9">>]

ReplyTweet ==
    [full_text |-> <<"@", "a", " ", "h">>, id_str |-> <<"9">>,
     in_reply_to_status_id |-> <<"7">>, in_reply_to_user_id |-> 1,
     in_reply_to_screen_name |-> <<"a">>]

MentionTweet ==
    [full_text |-> <<"h">>, id_str |-> <<"9">>,
     entities |-> [user_mentions |->
                      <<[id |-> 1, screen_name |-> <<"b">>],
                        [id |-> 2, screen_name |-> None],
                        [id |-> -1, screen_name |-> <<"c">>],
                        [id |-> 3]>>]]

TweetLists ==
    {<<>>, <<PlainTweet, ReplyTweet>>, <<MentionTweet>>,
     <<ReplyTweet, MentionTweet>>, <<MentionTweet, ReplyTweet>>}

Following(id) == [following |-> [accountId |-> id]]
Follower(id) == [follower |-> [accountId |-> id]]

BigFollowing == [i \in 1..BigN |-> Following(100 + i)]

FollowingLists ==
    {<<>>,
     <<Following(1), Following(2)>>,
     <<Following(3), [following |-> <<>>], Following(1)>>,
     BigFollowing}

\* follower.js with two records of one account
RepeatedFollower == <<Follower(3), Follower(3)>>

FollowerLists ==
    {<<>>, <<Follower(2), [follower |-> <<>>], Follower(4)>>, RepeatedFollower}

MessageCreate(from, to, text) ==
    [messageCreate |->
        [senderId |-> from, recipientId |-> to, text |-> text, createdAt |-> <<"t">>]]

MediaMessage ==
    [messageCreate |->
        [senderId |-> 3, recipientId |-> 6, text |-> ShortUrl, createdAt |-> <<"t">>,
         id |-> <<"5">>, urls |-> <<[url |-> ShortUrl, expanded |-> LongUrl]>>,
         mediaUrls |-> <<MediaUrl>>]]

\* direct-messages.js with two conversations, the first with an event of
\* another kind and a message-create event without text
TwoConversations ==
    <<[dmConversation |->
         [conversationId |-> <<1, 5>>,
          messages |-> <<MessageCreate(1, 5, <<"h">>),
                         [reactionCreate |-> [senderId |-> 5, createdAt |-> <<"t">>]],
                         [messageCreate |->
                             [senderId |-> 5, recipientId |-> 1, createdAt |-> <<"t">>]],
                         MessageCreate(5, 1, <<"x">>)>>]],
      [dmConversation |->
         [conversationId |-> <<2, 5>>,
          messages |-> <<MessageCreate(5, 2, <<"y">>)>>]]>>

DmLists ==
    {<<>>,
     <<[dmConversation |->
          [conversationId |-> <<1, 5>>,
           messages |-> <<MessageCreate(1, 5, <<"h">>), MessageCreate(5, 1, <<"x">>)>>]]>>,
     <<[dmConversation |->
          [conversationId |-> <<6, 3>>,
           messages |-> <<MediaMessage,
                          [messageCreate |-> [senderId |-> 6, text |-> <<"h">>]]>>]],
       [dmConversation |-> [messages |-> <<MessageCreate(2, 9, <<"h">>)>>]]>>,
     TwoConversations}

DmMediaListings == {<<>>, <<<<"5", "-", "m">>>>, <<<<"5", "_", "v">>>>}

GroupMessage(from, text) ==
    [messageCreate |-> [senderId |-> from, text |-> text, createdAt |-> <<"t">>]]

GroupLists ==
    {<<>>,
     <<[dmConversation |->
          [conversationId |-> <<"g", "1">>,
           messages |->
              <<[joinConversation |->
                    [initiatingUserId |-> 2, participantsSnapshot |-> <<1, 7>>]],
                GroupMessage(7, <<"h">>),
                [conversationNameUpdate |-> [name |-> <<"n">>]],
                [participantsJoin |-> [initiatingUserId |-> 1, userIds |-> <<8>>]]>>]]>>,
     <<[dmConversation |->
          [conversationId |-> <<"g", "2">>,
           messages |-> <<GroupMessage(3, <<"h">>), GroupMessage(9, <<"x">>),
                          [messageCreate |-> [senderId |-> 3, text |-> <<"h">>]]>>]],
       [dmConversation |-> [messages |-> <<GroupMessage(1, <<"h">>)>>]]>>,
     <<[dmConversation |->
          [conversationId |-> <<"g", "3">>,
           messages |->
              <<[conversationNameUpdate |-> [name |-> <<"T">>]],
                GroupMessage(7, <<"h">>),
                [messageCreate |-> [senderId |-> 4, text |-> <<"h">>]],
                [conversationNameUpdate |-> [name |-> <<"T", "2">>]],
                [conversationNameUpdate |-> [createdAt |-> <<"t">>]],
                [joinConversation |->
                    [initiatingUserId |-> 2, participantsSnapshot |-> <<7>>]]>>]],
       [dmConversation |->
          [conversationId |-> <<"g", "5">>,
           messages |-> <<[conversationNameUpdate |-> [createdAt |-> <<"t">>]],
                          GroupMessage(1, <<"h">>)>>]]>>,
     <<[dmConversation |->
          [conversationId |-> <<"g", "4">>,
           messages |-> <<[messageCreate |->
                              [text |-> <<"h">>, createdAt |-> <<"t">>]]>>]]>>}

Services == {"all", "some"}

\* does a conversation list carry a message with media
HasMediaMessage(json) ==
    \E i \in 1..Len(json) : \E k \in 1..Len(ConversationMessages(json[i])) :
        /\ Has(ConversationMessages(json[i])[k], "messageCreate")
        /\ Has(ConversationMessages(json[i])[k].messageCreate, "mediaUrls")

\* an archive with the long following list has no posts, followers or groups;
\* RepeatedFollower and TwoConversations come in the archives without posts
Init ==
    /\ InitRun
    /\ previous = <<>>
    /\ unreadable = {}
    /\ followingIn \in FollowingLists
    /\ tweetsIn \in IF followingIn = BigFollowing THEN {<<>>} ELSE TweetLists
    /\ followerIn \in IF followingIn = BigFollowing THEN {<<>>}
                      ELSE IF tweetsIn = <<>> THEN FollowerLists
                      ELSE FollowerLists \ {RepeatedFollower}
    /\ dmsIn \in IF followingIn = BigFollowing
                 THEN {json \in DmLists : ~HasMediaMessage(json)} \ {TwoConversations}
                 ELSE IF tweetsIn = <<>> THEN DmLists
                 ELSE DmLists \ {TwoConversations}
    /\ groupsIn \in IF followingIn = BigFollowing THEN {<<>>} ELSE GroupLists
    /\ input_media = <<>>
    /\ dm_media \in IF HasMediaMessage(dmsIn) THEN DmMediaListings ELSE {<<>>}
    /\ group_media = <<>>
    /\ service \in Services

Next ==
    \/ ConvertNextTweet
    \/ GetTweetsReturn
    \/ BulkLookUpForUserHandles
    \/ GetTwitterApiGuestToken
    \/ GetTwitterUsersBatch
    \/ GetFollowingUsers
    \/ GetFollowersUsers
    \/ GetDirectMessages
    \/ ConvertNextGroupConversation
    \/ GetGroupDirectMessagesReturn
    \/ RetrieveInformation

Spec == Init /\ [][Next]_vars

---------------------------------------------------------------------------
(* Properties of the pipeline.                                             *)

LookupFailed == lookup \in {"token_failed", "batch_failed"}

\* the stages of __init__ that follow the bulk lookup, and what comes after
BuildStages ==
    {"get_following", "get_followers", "get_direct_messages",
     "get_group_direct_messages", "constructed", "done"}

\* the ids the participant events of one group conversation refer to
ParticipantEventIds(conversation) ==
    UNION {EventUserIds(ConversationMessages(conversation)[k]) :
              k \in 1..Len(ConversationMessages(conversation))}

\* the ids referenced by the four sources of the bulk lookup
ReferencedIds ==
    {followingIn[i].following.accountId :
        i \in {k \in 1..Len(followingIn) :
                  Has(followingIn[k], "following")
                      /\ Has(followingIn[k].following, "accountId")}}
    \cup
    {followerIn[i].follower.accountId :
        i \in {k \in 1..Len(followerIn) :
                  Has(followerIn[k], "follower")
                      /\ Has(followerIn[k].follower, "accountId")}}
    \cup
    {dmsIn[i].dmConversation.conversationId[h] :
        i \in {k \in 1..Len(dmsIn) : IsConversation(dmsIn[k])}, h \in {1, 2}}
    \cup
    UNION {ParticipantEventIds(groupsIn[i]) : i \in 1..Len(groupsIn)}

\* the ids of the batches requested so far, in request order
SentIds == Concat(sent)

NoDuplicates(seq) == \A i, j \in 1..Len(seq) : seq[i] = seq[j] => i = j

\* the handle the service returns for the id is a non-null handle
Resolvable(id) == ScreenName(service, id) \notin {<<>>, None}

C2_RequestIsReferencedMinusKnown ==
    /\ pc \in {"guest_token", "batch"} =>
          /\ Range(request) = ReferencedIds \ DOMAIN users
          /\ NoDuplicates(request)
          /\ request # <<>>
          /\ SentIds \o user_ids = request
    /\ lookup = "nothing" =>
          /\ ReferencedIds \ DOMAIN users = {}
          /\ sent = <<>>
    /\ lookup = "ok" => SentIds = request
    /\ pc \in BuildStages => SubSeq(request, 1, Len(SentIds)) = SentIds

C2_Witness ==
    /\ pc = "batch"
    /\ sent = <<>>
    /\ DOMAIN users \cap ReferencedIds # {}
    /\ Cardinality(Range(FollowingIds(followingIn)) \cap Range(FollowerIds(followerIn))) > 0
    /\ dmsIn # <<>> /\ groupsIn # <<>>
    /\ Len(request) > 3

\* C3 as stated: when a batch after the first fails, the non-null handles the
\* earlier batches returned are in the registry.
C3_EarlierBatchesRegistered ==
    (lookup = "batch_failed" /\ Len(sent) > 1) =>
        \A k \in 1..(Len(sent) - 1) : \A id \in Range(sent[k]) :
            Resolvable(id) => (id \in DOMAIN users /\ users[id] = ScreenName(service, id))

\* the id/handle pairs of a raw post: its reply target, then its mentions
PostPairs(tweet) ==
    (IF Has(tweet, "in_reply_to_user_id") /\ Has(tweet, "in_reply_to_screen_name")
     THEN <<[id |-> tweet.in_reply_to_user_id, handle |-> tweet.in_reply_to_screen_name]>>
     ELSE <<>>)
    \o
    (IF Has(tweet, "entities") /\ Has(tweet.entities, "user_mentions")
     THEN LET named == SelectSeq(tweet.entities.user_mentions,
                                 LAMBDA m : Has(m, "id") /\ Has(m, "screen_name"))
          IN  [k \in 1..Len(named) |->
                  [id |-> named[k].id, handle |-> named[k].screen_name]]
     ELSE <<>>)

\* the pairs of the posts of the archive that opportunistic discovery registers,
\* in processing order: the id is not negative and the handle is not null
InlinePairs ==
    SelectSeq(Concat([i \in 1..Len(tweetsIn) |-> PostPairs(tweetsIn[i])]),
              LAMBDA p : p.id >= 0 /\ p.handle # None)

InlineIds == {InlinePairs[k].id : k \in 1..Len(InlinePairs)}

\* the handle of the last inline pair of the id
LastInline(id) ==
    InlinePairs[CHOOSE k \in 1..Len(InlinePairs) :
                    /\ InlinePairs[k].id = id
                    /\ \A j \in (k + 1)..Len(InlinePairs) : InlinePairs[j].id # id].handle

\* the bulk lookup has started: a request was formed or its outcome is known
LookupStarted ==
    \/ pc \in {"guest_token", "batch"}
    \/ lookup # "none"
    \/ request # <<>> \/ sent # <<>> \/ retrieved # <<>>

\* the bulk lookup has finished, with any outcome
LookupFinished == lookup # "none"

\* C4 as stated: no pair discovered inline while normalizing a post is in the
\* registry before the bulk lookup has finished.
C4_NoInlinePairBeforeLookup ==
    ~LookupFinished => \A id \in DOMAIN users : id \notin InlineIds

\* C4 as amended: the registry is written in the order opportunistic discovery,
\* then enumeration and bulk lookup.  While posts are normalized the bulk lookup
\* has not started and the registry holds inline pairs only; once the lookup
\* has started every post is normalized, and a key that is not an inline id was
\* written by the bulk lookup.
C4_DiscoveryThenLookup ==
    /\ pc = "get_tweets" => (~LookupStarted /\ DOMAIN users \subseteq InlineIds)
    /\ LookupStarted => Len(tweets) = Len(tweetsIn)
    /\ ~LookupFinished => DOMAIN users = InlineIds \/ pc = "get_tweets"
    /\ \A id \in DOMAIN users \ InlineIds :
          /\ lookup = "ok"
          /\ id \in DOMAIN retrieved
          /\ users[id] = retrieved[id].screen_name

C4_Witness ==
    /\ lookup = "ok"
    /\ Len(tweets) = 2
    /\ \E id \in DOMAIN users : id \in InlineIds
    /\ \E id \in DOMAIN users : id \notin InlineIds

\* C5 as stated: for an id with an inline handle for which the service returns a
\* different handle, the lookup resolves the id and the registry then holds the
\* inline handle, written over the one the lookup resolved.
C5_InlineOverwritesBulk ==
    (pc \in BuildStages /\ lookup = "ok") =>
        \A id \in InlineIds \cap ReferencedIds :
            (Resolvable(id) /\ ScreenName(service, id) # LastInline(id)) =>
                /\ users[id] = LastInline(id)
                /\ id \in DOMAIN retrieved
                /\ retrieved[id].screen_name = ScreenName(service, id)

\* C5 as amended: when follow edges and conversations are built the registry
\* holds, for an id with an inline pair, the handle of the last inline pair,
\* whatever the service would return: the id is a key of the registry when the
\* request is formed, is left out of the request, and is never resolved.
C5_InlineKeptNeverRequested ==
    pc \in BuildStages =>
        \A id \in InlineIds :
            /\ id \in DOMAIN users /\ users[id] = LastInline(id)
            /\ id \notin Range(request)
            /\ id \notin Range(SentIds)
            /\ id \notin DOMAIN retrieved

C5_Witness ==
    /\ pc = "get_following"
    /\ lookup = "ok"
    /\ \E id \in InlineIds \cap ReferencedIds :
          /\ Resolvable(id)
          /\ ScreenName(service, id) # users[id]
          /\ Len(InlinePairs) > 1
          /\ InlinePairs[1].id = id /\ InlinePairs[1].handle # users[id]

\* https://twitter.com/i/user/{id}
ProfileUrl(id) == <<"https://twitter.com/i/user/", ToString(id)>>

\* what a follow edge carries for the id
EdgeFor(id) ==
    [user_handle      |-> IF id \in DOMAIN users THEN users[id]
                          ELSE <<"~unknown~handle~">>,
     user_profile_url |-> ProfileUrl(id)]

\* what a message or a participant list carries for the id
NameFor(id) == IF id \in DOMAIN users THEN users[id] ELSE ProfileUrl(id)

\* the message-create events of the pairwise conversations that become a
\* DirectMessage, in conversation order then stream order
DirectMessageEvents ==
    SelectSeq(Concat([i \in 1..Len(dmsIn) |-> ConversationMessages(dmsIn[i])]),
              IsDirectMessage)

\* the message-create events of group conversation i that become a message
GroupMessageEvents(i) == SelectSeq(ConversationMessages(groupsIn[i]), IsGroupMessage)

\* C6: a follow edge carries the registered handle of its id, or the unknown
\* handle sentinel when the id has no entry, and always the profile URL of the
\* id; the sender and recipient of a direct message, the sender of a group
\* message and a group participant carry the registered handle, or the profile
\* URL of the id when the id has no entry.
C6_UnresolvedIdPerCallSite ==
    pc = "done" =>
        /\ Len(following) = Len(FollowingIds(followingIn))
        /\ \A i \in 1..Len(following) :
              following[i] = EdgeFor(FollowingIds(followingIn)[i])
        /\ Len(followers) = Len(FollowerIds(followerIn))
        /\ \A i \in 1..Len(followers) :
              followers[i] = EdgeFor(FollowerIds(followerIn)[i])
        /\ Len(direct_messages) = Len(DirectMessageEvents)
        /\ \A i \in 1..Len(direct_messages) :
              /\ direct_messages[i].dm_from =
                     NameFor(DirectMessageEvents[i].messageCreate.senderId)
              /\ direct_messages[i].dm_to =
                     NameFor(DirectMessageEvents[i].messageCreate.recipientId)
        /\ \A i \in 1..Len(group_direct_messages) :
              LET group == group_direct_messages[i]
                  ids == IF IsConversation(groupsIn[i])
                         THEN ParticipantEventIds(groupsIn[i]) ELSE {}
              IN  /\ Range(group.group_participant) = {NameFor(id) : id \in ids}
                  /\ Len(group.group_participant) = Cardinality(ids)
                  /\ Len(group.group_dms) = Len(GroupMessageEvents(i))
                  /\ \A k \in 1..Len(group.group_dms) :
                        group.group_dms[k].group_dm_from =
                            NameFor(GroupMessageEvents(i)[k].messageCreate.senderId)

C6_Witness ==
    /\ pc = "done"
    /\ \E i, j \in 1..Len(following) :
          /\ following[i].user_handle = <<"~unknown~handle~">>
          /\ following[j].user_handle # <<"~unknown~handle~">>
    /\ \E i \in 1..Len(followers) : followers[i].user_handle = <<"~unknown~handle~">>
    /\ \E i \in 1..Len(direct_messages) :
          /\ direct_messages[i].dm_from = <<"s", "3">>
          /\ direct_messages[i].dm_to = ProfileUrl(6)
    /\ \E i \in 1..Len(group_direct_messages) :
          /\ ProfileUrl(8) \in Range(group_direct_messages[i].group_participant)
          /\ <<"s", "7">> \in Range(group_direct_messages[i].group_participant)

---------------------------------------------------------------------------
(* Properties of the reconstructed conversations.  Conversation i of       *)
(* self.group_direct_messages is the conversion of groupsIn[i].            *)

Groups == 1..Len(group_direct_messages)

\* the name updates of conversation i that carry a name, in stream order
NameUpdates(i) ==
    SelectSeq(ConversationMessages(groupsIn[i]),
              LAMBDA m : Has(m, "conversationNameUpdate")
                            /\ Has(m.conversationNameUpdate, "name"))

\* C15: the name of a reconstructed group conversation is the name of the last
\* conversation-name-update event of its stream that carries a name, whatever
\* events lie between the name updates, and is absent when there is none.
C15_LastNameUpdateWins ==
    \A i \in Groups :
        group_direct_messages[i].group_name =
            IF NameUpdates(i) = <<>> THEN None
            ELSE NameUpdates(i)[Len(NameUpdates(i))].conversationNameUpdate.name

\* two name updates with a message between them and an update without a name
\* after them: the second name is kept; the next conversation has no name
C15_Witness ==
    /\ Len(group_direct_messages) = 2
    /\ Len(NameUpdates(1)) = 2
    /\ NameUpdates(1)[1].conversationNameUpdate.name = <<"T">>
    /\ group_direct_messages[1].group_name = <<"T", "2">>
    /\ group_direct_messages[2].group_name = None


\* the ids an event adds to the participants, in the order it names them
EventIdsInOrder(message) ==
    IF Has(message, "messageCreate")
    THEN <<message.messageCreate.senderId>>
    ELSE IF Has(message, "joinConversation")
    THEN <<message.joinConversation.initiatingUserId>>
            \o message.joinConversation.participantsSnapshot
    ELSE IF Has(message, "participantsJoin")
    THEN <<message.participantsJoin.initiatingUserId>>
            \o message.participantsJoin.userIds
    ELSE <<>>

\* the elements of a sequence, each at its first occurrence
FirstOccurrences(seq) ==
    LET firsts == {k \in 1..Len(seq) : \A j \in 1..(k - 1) : seq[j] # seq[k]}
        nth(n) == CHOOSE k \in firsts : Cardinality({j \in firsts : j < k}) = n - 1
    IN  [n \in 1..Cardinality(firsts) |-> seq[nth(n)]]

\* the participant ids of conversation i in the order the stream first shows them
FirstSeen(i) ==
    FirstOccurrences(
        Concat([k \in 1..Len(ConversationMessages(groupsIn[i])) |->
                   EventIdsInOrder(ConversationMessages(groupsIn[i])[k])]))

\* C16: the participant list of a reconstructed group conversation lists the
\* resolved participants in the order in which their ids were first seen in
\* the event stream of the conversation.
C16_ParticipantsInFirstSeenOrder ==
    \A i \in Groups :
        group_direct_messages[i].group_participant =
            [n \in 1..Len(FirstSeen(i)) |-> NameFor(FirstSeen(i)[n])]


Events(i) == ConversationMessages(groupsIn[i])
IsComplete(m) ==
    Has(m, "messageCreate")
        /\ {"senderId", "text", "createdAt"} \subseteq DOMAIN m.messageCreate
JoinIds(m) ==
    IF Has(m, "joinConversation")
    THEN {m.joinConversation.initiatingUserId}
            \cup Range(m.joinConversation.participantsSnapshot)
    ELSE IF Has(m, "participantsJoin")
    THEN {m.participantsJoin.initiatingUserId} \cup Range(m.participantsJoin.userIds)
    ELSE {}

\* the participants are the names of the ids, each once
ParticipantsAre(i, ids) ==
    /\ Range(group_direct_messages[i].group_participant) = {NameFor(id) : id \in ids}
    /\ Len(group_direct_messages[i].group_participant) = Cardinality(ids)

\* C17, as claimed: the participant ids of a group conversation are the sender
\* ids of the message-create events that carry sender, text and timestamp, the
\* initiating-user and snapshot ids of the join-conversation events and the
\* initiating-user and added ids of the participants-join events, and no other.
C17_ParticipantIdsOfCompleteMessages ==
    \A i \in Groups :
        ParticipantsAre(i,
            UNION {IF Has(Events(i)[k], "messageCreate")
                   THEN IF IsComplete(Events(i)[k])
                        THEN {Events(i)[k].messageCreate.senderId} ELSE {}
                   ELSE JoinIds(Events(i)[k]) : k \in 1..Len(Events(i))})

\* an event of the three kinds that lacks an id field the scan reads
LacksIds(m) ==
    IF Has(m, "messageCreate") THEN ~Has(m.messageCreate, "senderId")
    ELSE IF Has(m, "joinConversation")
    THEN ~({"initiatingUserId", "participantsSnapshot"} \subseteq DOMAIN m.joinConversation)
    ELSE IF Has(m, "participantsJoin")
    THEN ~({"initiatingUserId", "userIds"} \subseteq DOMAIN m.participantsJoin)
    ELSE FALSE

\* C17, amended: the participant ids are the sender ids of all message-create
\* events, with or without text and timestamp, and the ids of the join events;
\* no other event adds an id.  An event of these kinds without an id field it
\* is read for ends the run with an exception before any conversation is
\* reconstructed.
C17_ParticipantIdsOfEveryMessageCreate ==
    /\ \A i \in Groups :
          ParticipantsAre(i,
              UNION {IF Has(Events(i)[k], "messageCreate")
                     THEN {Events(i)[k].messageCreate.senderId}
                     ELSE JoinIds(Events(i)[k]) : k \in 1..Len(Events(i))})
    /\ (\E i \in 1..Len(groupsIn) : \E k \in 1..Len(Events(i)) : LacksIds(Events(i)[k]))
          => /\ group_direct_messages = <<>>
             /\ pc \in {"get_tweets", "bulk_lookup", "raised"}

\* a message-create event without a timestamp is the only event of sender 4:
\* 4 is a participant
C17_Witness ==
    /\ Len(group_direct_messages) >= 1
    /\ \E k \in 1..Len(Events(1)) :
          /\ Has(Events(1)[k], "messageCreate")
          /\ ~IsComplete(Events(1)[k])
          /\ Events(1)[k].messageCreate.senderId = 4
    /\ \A k \in 1..Len(Events(1)) :
          IsComplete(Events(1)[k]) => Events(1)[k].messageCreate.senderId # 4
    /\ NameFor(4) \in Range(group_direct_messages[1].group_participant)


\* what a message without link entities carries for its text: the words of
\* the text, each followed by a space
PlainData(message_create) == JoinWords(Split(message_create.text))

\* C18: the message list of a group conversation has exactly one GroupMessage
\* per message-create event of its stream that carries sender, text and
\* timestamp, in stream order; the join-conversation, participants-join and
\* conversation-name-update events and the message-create events that lack one
\* of the fields emit no message.  (A record without a conversation id gives a
\* conversation without messages.)
C18_OneGroupMessagePerCompleteEvent ==
    \A i \in Groups :
        LET emitted == SelectSeq(Events(i), IsComplete)
            group_dms == group_direct_messages[i].group_dms
        IN  /\ Len(group_dms) = Len(emitted)
            /\ \A k \in 1..Len(group_dms) :
                  /\ group_dms[k].group_dm_at = emitted[k].messageCreate.createdAt
                  /\ group_dms[k].group_dm_from = NameFor(emitted[k].messageCreate.senderId)
                  /\ ~Has(emitted[k].messageCreate, "urls") =>
                        group_dms[k].group_dm_data = PlainData(emitted[k].messageCreate)

\* three message-create events, the last without a timestamp: two messages, in
\* stream order
C18_Witness ==
    /\ Len(group_direct_messages) >= 1
    /\ Len(Events(1)) = 3
    /\ \A k \in 1..3 : Has(Events(1)[k], "messageCreate")
    /\ ~IsComplete(Events(1)[3])
    /\ Len(group_direct_messages[1].group_dms) = 2
    /\ group_direct_messages[1].group_dms[1].group_dm_data = <<"h", " ">>
    /\ group_direct_messages[1].group_dms[2].group_dm_data = <<"x", " ">>


\* the events of the pairwise conversations, in conversation order then stream
\* order, and those that carry sender, recipient, text and timestamp
PairwiseEvents == Concat([i \in 1..Len(dmsIn) |-> ConversationMessages(dmsIn[i])])
IsCompleteDm(m) ==
    Has(m, "messageCreate")
        /\ {"senderId", "recipientId", "text", "createdAt"} \subseteq DOMAIN m.messageCreate
DirectMessagesReturned == pc \in {"get_group_direct_messages", "constructed", "done"}

\* C19: the pairwise output has exactly one DirectMessage per message-create
\* event that carries sender, recipient, text and timestamp, in conversation
\* order then stream order; events of other kinds and message-create events
\* that lack one of the four fields give no DirectMessage.
C19_OneDirectMessagePerCompleteEvent ==
    DirectMessagesReturned =>
        LET emitted == SelectSeq(PairwiseEvents, IsCompleteDm)
        IN  /\ Len(direct_messages) = Len(emitted)
            /\ \A k \in 1..Len(direct_messages) :
                  /\ direct_messages[k].dm_at = emitted[k].messageCreate.createdAt
                  /\ direct_messages[k].dm_from = NameFor(emitted[k].messageCreate.senderId)
                  /\ direct_messages[k].dm_to = NameFor(emitted[k].messageCreate.recipientId)
                  /\ ~Has(emitted[k].messageCreate, "urls") =>
                        direct_messages[k].dm_data = PlainData(emitted[k].messageCreate)

\* two conversations, the first with an event of another kind and a
\* message-create event without text between its two messages: three
\* DirectMessages, those of the first conversation first
C19_Witness ==
    /\ DirectMessagesReturned
    /\ Len(dmsIn) = 2
    /\ Len(PairwiseEvents) = 5
    /\ \E k \in 1..5 : ~Has(PairwiseEvents[k], "messageCreate")
    /\ \E k \in 1..5 : Has(PairwiseEvents[k], "messageCreate") /\ ~IsCompleteDm(PairwiseEvents[k])
    /\ [k \in 1..3 |-> direct_messages[k].dm_data] =
          <<<<"h", " ">>, <<"x", " ">>, <<"y", " ">>>>


\* the account ids of the raw records of a follow file that carry one, in
\* input order
AccountIds(json, kind) ==
    LET carrying == SelectSeq(json, LAMBDA r : Has(r, kind) /\ Has(r[kind], "accountId"))
    IN  [k \in 1..Len(carrying) |-> carrying[k][kind].accountId]

\* C20: in the model returned by retrieve_information, following_count is the
\* length of following and follower_count the length of followers, and each
\* list has one edge per raw record that carries an account id, in input order.
C20_CountsAndEdgesPerRecord ==
    pc = "done" =>
        /\ info.following_count = Len(info.following)
        /\ info.follower_count = Len(info.followers)
        /\ info.following =
              [k \in 1..Len(AccountIds(followingIn, "following")) |->
                  EdgeFor(AccountIds(followingIn, "following")[k])]
        /\ info.followers =
              [k \in 1..Len(AccountIds(followerIn, "follower")) |->
                  EdgeFor(AccountIds(followerIn, "follower")[k])]

\* three following records, one without an account id, and two follower
\* records of the same account: two edges each
C20_Witness ==
    /\ pc = "done"
    /\ Len(followingIn) = 3
    /\ followerIn = <<Follower(3), Follower(3)>>
    /\ info.following_count = 2
    /\ info.following[1].user_profile_url = ProfileUrl(3)
    /\ info.following[2].user_profile_url = ProfileUrl(1)
    /\ info.follower_count = 2
    /\ info.followers[1] = info.followers[2]

---------------------------------------------------------------------------
(* Properties of the normalized posts.  Post i of self.tweets is the       *)
(* conversion of raw post i.                                               *)

Posts == 1..Len(tweets)
RawWords(i) == Split(tweetsIn[i].full_text)

\* a token of the shape @name, name made of [0-9A-Za-z_]
IsMentionWord(w) == w[1] = "@" /\ \A k \in 2..Len(w) : w[k] \in WordChars

\* the number of mention tokens a list of words starts with
LeadingMentions(words) ==
    CHOOSE n \in 0..Len(words) :
        /\ \A k \in 1..n : IsMentionWord(words[k])
        /\ n = Len(words) \/ ~IsMentionWord(words[n + 1])

\* the text begins with an '@mention ' token
BeginsWithMention(body) ==
    \E n \in 2..Len(body) :
        /\ body[1] = "@" /\ body[n] = " "
        /\ \A k \in 2..(n - 1) : body[k] \in WordChars

\* the second token of raw post i, empty when there is none
SecondWord(i) == IF Len(RawWords(i)) >= 2 THEN RawWords(i)[2] ELSE <<>>

\* the texts a token can hold between its first character and a later one
Names(w) == {SubSeq(w, 2, k) : k \in 1..Len(w)}

\* the token has the shape '@name:' for this name
IsRetweetSource(w, name) == w = <<"@">> \o name \o <<":">>

\* C7 as stated: a post is a RETWEET iff the first token of its raw body is RT,
\* whether or not it carries in_reply_to_status_id.
C7_RepostIffFirstTokenRT ==
    \A i \in Posts : (tweets[i].tweet_type = "RETWEET") <=> (RawWords(i)[1] = RT)

\* C7 as amended: a post is a RETWEET iff the first token of its raw body is RT
\* and it carries no in_reply_to_status_id; with both it is a REPLY.
C7_RepostIffRTAndNoReplyTarget ==
    \A i \in Posts :
        /\ (tweets[i].tweet_type = "RETWEET")
              <=> (RawWords(i)[1] = RT /\ ~Has(tweetsIn[i], "in_reply_to_status_id"))
        /\ (RawWords(i)[1] = RT /\ Has(tweetsIn[i], "in_reply_to_status_id"))
              => tweets[i].tweet_type = "REPLY"

C7_Witness ==
    /\ \E i \in Posts : RawWords(i)[1] = RT /\ tweets[i].tweet_type = "RETWEET"
    /\ Len(tweets) = Len(tweetsIn)

RetweetRest(i) ==
    StripMediaUrl(tweetsIn[i],
                  ExpandLinks(tweetsIn[i],
                              JoinWords(SubSeq(RawWords(i), 3, Len(RawWords(i))))))

\* C9 as stated: when the first token is RT and the second is '@name:', the post
\* has retweeted_from = name and its body is the tokens after the first two,
\* each followed by one space.
C9_RepostSourceAndBody ==
    \A i \in Posts : \A name \in Names(SecondWord(i)) :
        (RawWords(i)[1] = RT /\ IsRetweetSource(SecondWord(i), name)) =>
            /\ tweets[i].retweeted_from = name
            /\ tweets[i].tweet_data = RetweetRest(i)

\* C9 as amended: the same, the body only for a post without
\* in_reply_to_status_id; with one, the body is those tokens without the
\* '@mention ' tokens they start with.
C9_RepostSourceAndBodyUnlessReply ==
    \A i \in Posts : \A name \in Names(SecondWord(i)) :
        (RawWords(i)[1] = RT /\ IsRetweetSource(SecondWord(i), name)) =>
            /\ tweets[i].retweeted_from = name
            /\ ~Has(tweetsIn[i], "in_reply_to_status_id") =>
                  tweets[i].tweet_data = RetweetRest(i)
            /\ Has(tweetsIn[i], "in_reply_to_status_id") =>
                  LET rest == SubSeq(RawWords(i), 3, Len(RawWords(i)))
                      kept == SubSeq(rest, LeadingMentions(rest) + 1, Len(rest))
                  IN  tweets[i].tweet_data =
                          StripMediaUrl(tweetsIn[i], ExpandLinks(tweetsIn[i], JoinWords(kept)))

C9_Witness ==
    \E i \in Posts :
        /\ RawWords(i)[1] = RT /\ IsRetweetSource(SecondWord(i), <<"b">>)
        /\ Len(RawWords(i)) = 3
        /\ tweets[i].tweet_type = "RETWEET"
        /\ tweets[i].tweet_data = <<"h", " ">>

\* C10: a post with in_reply_to_status_id and a reply-target screen name s whose
\* body starts with '@mention ' tokens is a REPLY, replied_to_names is that run
\* in order, the body is the body without the run, and replying_to_tweet is
\* https://twitter.com/{s}/status/{status_id}.
C10_ReplyWithScreenName ==
    \A i \in Posts :
        LET raw == tweetsIn[i]
            n == LeadingMentions(RawWords(i))
            body == ExpandLinks(raw, JoinWords(RawWords(i)))
            run == JoinWords(SubSeq(RawWords(i), 1, n))
        IN  (/\ Has(raw, "in_reply_to_status_id")
             /\ Has(raw, "in_reply_to_screen_name") /\ raw.in_reply_to_screen_name # None
             /\ n > 0) =>
                /\ tweets[i].tweet_type = "REPLY"
                /\ tweets[i].replied_to_names = SubSeq(RawWords(i), 1, n)
                /\ StartsWith(body, run)
                /\ tweets[i].tweet_data =
                       StripMediaUrl(raw, SubSeq(body, Len(run) + 1, Len(body)))
                /\ tweets[i].replying_to_tweet =
                       <<"https://twitter.com/">> \o raw.in_reply_to_screen_name
                           \o <<"/status/">> \o raw.in_reply_to_status_id

C10_Witness ==
    \E i \in Posts :
        /\ RawWords(i) = << <<"@", "a">>, <<"@", "a">>, <<"h">> >>
        /\ Has(tweetsIn[i], "in_reply_to_screen_name")
        /\ tweets[i].replied_to_names = << <<"@", "a">>, <<"@", "a">> >>
        /\ tweets[i].tweet_data = <<"h", " ">>
        /\ tweets[i].replying_to_tweet = <<"https://twitter.com/", "b", "/status/", "7">>

---------------------------------------------------------------------------
(* Properties of the media of the posts.  The media entities of a post     *)
(* that are resolved are those with a url and a media_url.                 *)

MediaPosts == {i \in Posts : HasMedia(tweetsIn[i])}
Resolved(i) ==
    SelectSeq(tweetsIn[i].extended_entities.media,
              LAMBDA e : Has(e, "url") /\ Has(e, "media_url"))
RemoteName(e) == BaseName(e.media_url)
ExactFile(i, e) == tweetsIn[i].id_str \o <<"-">> \o RemoteName(e)
Listed(f) == \E k \in 1..Len(input_media) : input_media[k] = f
PrefixFiles(i) == Glob(input_media, tweetsIn[i].id_str)
Resolution(i, e) ==
    IF Listed(ExactFile(i, e)) THEN "exact"
    ELSE IF PrefixFiles(i) # <<>> THEN "prefix"
    ELSE "remote"
VideoTag == <<" > Your browser does not support the video tag">>

\* the files a post takes from dir_input_media
TakenFiles(i) ==
    UNION {IF Resolution(i, e) = "exact" THEN {ExactFile(i, e)}
           ELSE Range(PrefixFiles(i)) : e \in Range(Resolved(i))}

\* the markup of one entity
Fragment(i, e) ==
    CASE Resolution(i, e) = "exact"  -> <<"../../media/">> \o ExactFile(i, e)
      [] Resolution(i, e) = "prefix" ->
            Concat([k \in 1..Len(PrefixFiles(i)) |->
                       <<"../../media/">> \o PrefixFiles(i)[k] \o VideoTag])
      [] Resolution(i, e) = "remote" -> tweetsIn[i].entities.media[1].url

\* the MediaSource of an entity resolved by its exact file
OrigSource(i, e) ==
    <<<<"twitter_parser-output/media/">> \o ExactFile(i, e),
      <<"https://pbs.twimg.com/media/">> \o RemoteName(e) \o <<":orig">>>>
IsOrigSource(source) == source[2][Len(source[2])] = ":orig"
ExactEntities(i) == SelectSeq(Resolved(i), LAMBDA e : Resolution(i, e) = "exact")

\* C11: media resolution is first-match-wins.  An entity whose file
\* {post id}-{basename(media_url)} is listed takes that file alone and records
\* exactly one MediaSource, (output path, https://pbs.twimg.com/media/{name}:orig);
\* the prefix glob is used only when that file is absent; the remote link is
\* kept only when the glob is empty too.  Files are copied for no other reason.
C11_FirstMatchWins ==
    /\ Range(copies) \subseteq
          UNION {TakenFiles(i) : i \in {j \in 1..Len(tweetsIn) : HasMedia(tweetsIn[j])}}
    /\ \A i \in MediaPosts :
          /\ TakenFiles(i) \subseteq output_media
          /\ previous = <<>> => TakenFiles(i) \subseteq Range(copies)
          /\ tweets[i].tweets_attached_media =
                Concat([k \in 1..Len(Resolved(i)) |-> Fragment(i, Resolved(i)[k])])
    /\ SelectSeq(media_sources, IsOrigSource) =
          Concat([i \in 1..Len(tweets) |->
                     IF i \in MediaPosts
                     THEN [k \in 1..Len(ExactEntities(i)) |->
                              OrigSource(i, ExactEntities(i)[k])]
                     ELSE <<>>])

\* the exact file and a file of the prefix are listed: the exact file alone is
\* copied and one MediaSource is recorded
C11_Witness ==
    /\ previous = <<>>
    /\ input_media = <<MediaFile("m"), MediaFile("v")>>
    /\ Len(tweets) = 1
    /\ Len(Resolved(1)) = 1
    /\ copies = <<MediaFile("m")>>
    /\ output_media = {MediaFile("m")}
    /\ media_sources = <<<<<<"twitter_parser-output/media/", "9", "-", "m">>,
                           <<"https://pbs.twimg.com/media/", "m", ":orig">>>>>>
    /\ tweets[1].tweets_attached_media = <<"../../media/", "9", "-", "m">>

\* C12: media resolution is idempotent.  In a second run over the same posts
\* and the same media directory, after a first run that completed, no file is
\* copied, the files of the output media directory are those the first run
\* left, and each post gets the media markup and the body it got the first time.
C12_SecondRunIdempotent ==
    (previous # <<>> /\ previous[1].pc # "raised") =>
        /\ copies = <<>>
        /\ output_media = previous[1].output_media
        /\ \A i \in Posts :
              /\ tweets[i].tweets_attached_media =
                    previous[1].tweets[i].tweets_attached_media
              /\ tweets[i].tweet_data = previous[1].tweets[i].tweet_data

\* the second run has converted the posts of an archive whose first run copied
\* the two files of a prefix glob
C12_Witness ==
    /\ previous # <<>>
    /\ Len(previous[1].copies) = 2
    /\ pc = NextStage("get_tweets")
    /\ Len(tweets) = 2
    /\ tweets[1].tweets_attached_media # None
    /\ copies = <<>>

RECURSIVE Sum(_)
Sum(ns) == IF ns = <<>> THEN 0 ELSE Head(ns) + Sum(Tail(ns))

Variants(e) ==
    IF Has(e, "video_info") /\ Has(e.video_info, "variants")
    THEN e.video_info.variants ELSE <<>>
HasVariantList(e) == Has(e, "video_info") /\ Has(e.video_info, "variants")
Rated(e) == {v \in Range(Variants(e)) : Has(v, "bitrate")}
PrefixEntities(i) == SelectSeq(Resolved(i), LAMBDA e : Resolution(i, e) = "prefix")
RemoteEntities(i) == SelectSeq(Resolved(i), LAMBDA e : Resolution(i, e) = "remote")
RunCompleted == pc # "raised" /\ Len(tweets) = Len(tweetsIn)

\* the (output path, entity) of every MediaSource of the prefix fallback: one
\* per matched file of each entity with a rated variant, in order
VariantSlots ==
    Concat([i \in 1..Len(tweets) |->
        IF i \notin MediaPosts THEN <<>>
        ELSE Concat([k \in 1..Len(PrefixEntities(i)) |->
                IF Rated(PrefixEntities(i)[k]) = {} THEN <<>>
                ELSE [j \in 1..Len(PrefixFiles(i)) |->
                         [path |-> <<"twitter_parser-output/media/">> \o PrefixFiles(i)[j],
                          entity |-> PrefixEntities(i)[k]]]])])

\* every MediaSource of the prefix fallback has the URL of a variant of the
\* highest bitrate among the rated variants of its entity, 0 being a bitrate
BestVariantRecorded ==
    LET got == SelectSeq(media_sources, LAMBDA source : ~IsOrigSource(source))
    IN  /\ Len(got) = Len(VariantSlots)
        /\ \A k \in 1..Len(got) :
              /\ got[k][1] = VariantSlots[k].path
              /\ \E v \in Rated(VariantSlots[k].entity) :
                    /\ got[k][2] = v.url
                    /\ \A w \in Rated(VariantSlots[k].entity) : w.bitrate <= v.bitrate

\* C13, as claimed: in prefix fallback the URL recorded for an entity is that of
\* a variant of maximum bitrate among the variants that carry one (0 is valid);
\* an entity of which no variant carries a bitrate records no MediaSource and
\* produces a warning.
C13_BestVariantOrWarning ==
    RunCompleted =>
        /\ BestVariantRecorded
        /\ \A i \in MediaPosts : \A k \in 1..Len(PrefixEntities(i)) :
              Rated(PrefixEntities(i)[k]) = {} => warnings >= 1

\* the warnings of a post: one for an entity left with its remote link, one per
\* matched file for an entity with a list of variants none of which is rated
MediaWarnings(i) ==
    Len(RemoteEntities(i))
    + Sum([k \in 1..Len(PrefixEntities(i)) |->
              IF HasVariantList(PrefixEntities(i)[k]) /\ Rated(PrefixEntities(i)[k]) = {}
              THEN Len(PrefixFiles(i)) ELSE 0])

\* C13, amended: the URL recorded is that of a variant of maximum bitrate; an
\* entity with a list of variants none of which carries a bitrate records no
\* MediaSource and produces one warning per matched file; an entity without a
\* list of variants records no MediaSource and produces no warning.
C13_BestVariantOrWarningIfListed ==
    RunCompleted =>
        /\ BestVariantRecorded
        /\ warnings = Sum([i \in 1..Len(tweets) |->
                             IF i \in MediaPosts THEN MediaWarnings(i) ELSE 0])

\* the variants rated 0, 320000 and 180000: the URL of the second is recorded
C13_Witness ==
    /\ RunCompleted
    /\ Len(tweets) = 1
    /\ 1 \in MediaPosts
    /\ Len(Resolved(1)) = 1
    /\ Len(Variants(Resolved(1)[1])) = 3
    /\ [n \in 1..3 |-> Variants(Resolved(1)[1])[n].bitrate] = <<0, 320000, 180000>>
    /\ input_media = <<MediaFile("v")>>
    /\ media_sources = <<<<<<"twitter_parser-output/media/", "9", "-", "v">>,
                           VariantUrl("b")>>>>
    /\ warnings = 0

\* C14: the failure of one media file copy does not abort the run: when no post
\* raises for a reason of its own, the run never ends in an exception, and when
\* it has converted the posts, an entity whose file could not be copied has the
\* markup of an entity without a local file (the remote link, no MediaSource).
C14_CopyFailureDoesNotAbort ==
    (\A i \in 1..Len(tweetsIn) : ~ConvertRaises(tweetsIn[i])) =>
        /\ pc # "raised"
        /\ RunCompleted =>
              /\ output_media \cap unreadable = {}
              /\ \A i \in MediaPosts :
                    (TakenFiles(i) \cap unreadable # {} /\ Len(Resolved(i)) = 1) =>
                        tweets[i].tweets_attached_media = tweetsIn[i].entities.media[1].url

---------------------------------------------------------------------------
(* Properties of the links and the identities of the posts.                *)

\* C21 as stated: the tweet_url of every normalized post is
\* https://twitter.com/{owner_handle}/{post_id}, whatever its kind, body,
\* entities and reply fields.
C21_PermalinkOwnerAndId ==
    \A i \in Posts :
        tweets[i].tweet_url =
            <<"https://twitter.com/">> \o user_name \o <<"/">> \o tweetsIn[i].id_str

\* C21 as amended: the tweet_url of every normalized post is
\* https://twitter.com/{owner_handle}/status/{post_id}, a function of the
\* owner's handle and the post id alone, whatever its kind, body, entities and
\* reply fields.
C21_PermalinkOwnerStatusId ==
    \A i \in Posts :
        tweets[i].tweet_url =
            <<"https://twitter.com/">> \o user_name \o <<"/status/">> \o tweetsIn[i].id_str

C21_Witness ==
    \E i \in Posts :
        /\ tweets[i].tweet_type = "REPLY"
        /\ tweets[i].retweeted_from = <<"b">>
        /\ Has(tweetsIn[i], "entities")
        /\ tweets[i].tweet_url = <<"https://twitter.com/", "o", "/status/", "9">>

\* the link entities of raw post i, and those that carry both forms
Links(i) ==
    IF Has(tweetsIn[i], "entities") /\ Has(tweetsIn[i].entities, "urls")
    THEN tweetsIn[i].entities.urls ELSE <<>>
HasBothForms(url) == Has(url, "url") /\ Has(url, "expanded_url")

\* the text sub occurs in the text s
Occurs(sub, s) == \E k \in 0..(Len(s) - Len(sub)) : SubSeq(s, k + 1, k + Len(sub)) = sub

\* the tokens of the body of post i, and the number of tokens of the raw body
\* that were dropped in front of them
BodyWords(i) == Split(tweets[i].tweet_data)
Dropped(i) == Len(RawWords(i)) - Len(BodyWords(i))

\* C22 as stated: for every link entity that carries both forms, every token of
\* the body that was its short form is its expanded form after link expansion,
\* also when an expanded form holds the short form of another entity and when
\* two entities share a short form.
C22_EveryShortFormExpanded ==
    \A i \in Posts : ~HasMedia(tweetsIn[i]) =>
        \A j \in 1..Len(Links(i)) : HasBothForms(Links(i)[j]) =>
            \A k \in (Dropped(i) + 1)..Len(RawWords(i)) :
                RawWords(i)[k] = Links(i)[j].url =>
                    BodyWords(i)[k - Dropped(i)] = Links(i)[j].expanded_url

\* C22 as amended: the entities that carry both forms are applied in list
\* order.  A token that was the short form of an entity, and holds the short
\* form of no entity before it, is that entity's expanded form when no entity
\* after it has a short form that occurs in the expanded form; of two entities
\* it is the expanded form of the first, rewritten by the second.
C22_ShortFormsExpandedInListOrder ==
    \A i \in Posts : ~HasMedia(tweetsIn[i]) =>
        LET urls == Links(i)
            both == {j \in 1..Len(urls) : HasBothForms(urls[j])}
        IN  \A j \in both :
              \A k \in (Dropped(i) + 1)..Len(RawWords(i)) :
                (/\ RawWords(i)[k] = urls[j].url
                 /\ \A m \in both : m < j => ~Occurs(urls[m].url, urls[j].url)) =>
                    /\ (\A m \in both : m > j =>
                            ~Occurs(urls[m].url, urls[j].expanded_url))
                          => BodyWords(i)[k - Dropped(i)] = urls[j].expanded_url
                    /\ (both = {1, 2} /\ j = 1)
                          => BodyWords(i)[k - Dropped(i)] =
                                 Replace(urls[1].expanded_url, urls[2].url,
                                         urls[2].expanded_url)

C22_Witness ==
    /\ Len(tweets) = 1
    /\ Links(1) = <<[url |-> ShortUrl, expanded_url |-> ChainedUrl],
                    [url |-> OtherShortUrl, expanded_url |-> OtherLongUrl]>>
    /\ RawWords(1) = <<ShortUrl, OtherShortUrl>>
    /\ tweets[1].tweet_data =
           <<"https://", "Y", "/", "k", " ", "https://", "Y", " ">>

\* the tokens of the body of raw post i when the reply step reads it: after the
\* RT step and link expansion
PreReplyWords(i) ==
    LET kept == IF RawWords(i)[1] = RT THEN SubSeq(RawWords(i), 3, Len(RawWords(i)))
                ELSE RawWords(i)
    IN  Split(ExpandLinks(tweetsIn[i], JoinWords(kept)))

\* C23 as stated: a post with in_reply_to_status_id and without
\* in_reply_to_screen_name has replying_to_tweet
\* https://twitter.com/{screen_name}/status/{status_id}, screen_name being the
\* handle of the first stripped mention, or the owner's handle when no mention
\* is stripped, and then replied_to_names has the owner as its single entry.
C23_ReplyToFirstMentionHandle ==
    \A i \in Posts :
        LET raw == tweetsIn[i]
            w == PreReplyWords(i)
            n == LeadingMentions(w)
            screen_name == IF n > 0 THEN Tail(w[1]) ELSE user_name
        IN  (Has(raw, "in_reply_to_status_id") /\ ~Has(raw, "in_reply_to_screen_name")) =>
                /\ tweets[i].replying_to_tweet =
                       <<"https://twitter.com/">> \o screen_name
                           \o <<"/status/">> \o raw.in_reply_to_status_id
                /\ n = 0 => Len(tweets[i].replied_to_names) = 1

\* C23 as amended: such a post has replying_to_tweet
\* https://twitter.com/{token}/status/{status_id}, the token being the first
\* stripped mention with its '@', or '@' followed by the owner's handle when no
\* mention is stripped, and then replied_to_names is that one token; a post
\* whose in_reply_to_screen_name is null has 'None' in the place of the token.
C23_ReplyToFirstMentionToken ==
    \A i \in Posts :
        LET raw == tweetsIn[i]
            w == PreReplyWords(i)
            n == LeadingMentions(w)
            token == IF n > 0 THEN w[1] ELSE <<"@">> \o user_name
        IN  Has(raw, "in_reply_to_status_id") =>
                /\ ~Has(raw, "in_reply_to_screen_name") =>
                      /\ tweets[i].replying_to_tweet =
                             <<"https://twitter.com/">> \o token
                                 \o <<"/status/">> \o raw.in_reply_to_status_id
                      /\ n = 0 => tweets[i].replied_to_names = <<token>>
                /\ (Has(raw, "in_reply_to_screen_name") /\ raw.in_reply_to_screen_name = None)
                      => tweets[i].replying_to_tweet =
                             <<"https://twitter.com/", "None", "/status/">>
                                 \o raw.in_reply_to_status_id

C23_Witness ==
    \E i \in Posts :
        /\ Has(tweetsIn[i], "in_reply_to_status_id")
        /\ ~Has(tweetsIn[i], "in_reply_to_screen_name")
        /\ RawWords(i) = << <<"h">>, <<"@", "a">> >>
        /\ tweets[i].replied_to_names = << <<"@", "o">> >>
        /\ tweets[i].replying_to_tweet = <<"https://twitter.com/", "@", "o", "/status/", "7">>

\* the MediaSources of the prefix fallback, and the number of entities resolved
\* by it of which a variant carries a bitrate
VariantSources == SelectSeq(media_sources, LAMBDA source : ~IsOrigSource(source))
RatedPrefixEntities(i) == SelectSeq(PrefixEntities(i), LAMBDA e : Rated(e) # {})

\* C24 as stated: an entity resolved by prefix fallback of which a variant
\* carries a bitrate has exactly one MediaSource, however many files match the
\* prefix.
C24_OneSourcePerEntity ==
    RunCompleted =>
        Len(VariantSources) = Sum([i \in 1..Len(tweets) |->
                                      IF i \in MediaPosts THEN Len(RatedPrefixEntities(i))
                                      ELSE 0])

\* C24 as amended: such an entity has exactly one MediaSource per file that
\* matches the prefix, in the order of the files, each with the output path of
\* its file and all with the same URL; it has exactly one when one file matches.
C24_OneSourcePerMatchedFile ==
    RunCompleted =>
        /\ Len(VariantSources) =
               Sum([i \in 1..Len(tweets) |->
                       IF i \in MediaPosts
                       THEN Len(RatedPrefixEntities(i)) * Len(PrefixFiles(i)) ELSE 0])
        /\ \A i \in MediaPosts :
              (Len(RatedPrefixEntities(i)) = 1 /\ MediaPosts = {i}) =>
                  /\ [k \in 1..Len(VariantSources) |-> VariantSources[k][1]] =
                         [k \in 1..Len(PrefixFiles(i)) |->
                             <<"twitter_parser-output/media/">> \o PrefixFiles(i)[k]]
                  /\ \A k \in 1..Len(VariantSources) :
                         VariantSources[k][2] = VariantSources[1][2]

\* two files match the prefix of a video with rated variants
C24_Witness ==
    /\ RunCompleted
    /\ Len(tweets) = 1
    /\ 1 \in MediaPosts
    /\ Len(RatedPrefixEntities(1)) = 1
    /\ input_media = <<MediaFile("v"), OtherFile>>
    /\ Len(media_sources) = 2
    /\ media_sources[1][1] = <<"twitter_parser-output/media/", "9", "-", "v">>
    /\ media_sources[2][1] = <<"twitter_parser-output/media/", "9", "0", "-", "w">>
    /\ media_sources[1][2] = media_sources[2][2]

\* the pairs opportunistic discovery has registered so far, in processing
\* order: those of the posts that are normalized
RegisteredPairs ==
    SelectSeq(Concat([i \in 1..Len(tweets) |-> PostPairs(tweetsIn[i])]),
              LAMBDA p : p.id >= 0 /\ p.handle # None)
RegisteredIds == {RegisteredPairs[k].id : k \in 1..Len(RegisteredPairs)}
LastRegistered(id) ==
    RegisteredPairs[CHOOSE k \in 1..Len(RegisteredPairs) :
                        /\ RegisteredPairs[k].id = id
                        /\ \A j \in (k + 1)..Len(RegisteredPairs) :
                              RegisteredPairs[j].id # id].handle

\* the ids the bulk lookup has written: those retrieved with a handle
LookedUpIds ==
    IF lookup = "ok"
    THEN {id \in DOMAIN retrieved : retrieved[id].screen_name # None}
    ELSE {}

\* the registry has one entry for each id registered inline or written by the
\* lookup, and an id registered inline has the handle of its last registration
RegistryKeepsLastInline ==
    /\ DOMAIN users = RegisteredIds \cup LookedUpIds
    /\ \A id \in RegisteredIds : users[id] = LastRegistered(id)

\* C25: over the post normalizations and the bulk lookup no step takes an id
\* out of the registry, and after every step that normalizes a post, writes the
\* registry or ends the lookup, the registry holds one entry per id registered
\* and an id that was registered inline more than once holds the handle of the
\* last registration in processing order.
C25_RegistryGrowsLastInlineWins ==
    [][/\ DOMAIN users \subseteq DOMAIN users'
       /\ <<users, tweets, lookup>>' # <<users, tweets, lookup>>
             => RegistryKeepsLastInline']_vars

C25_Witness ==
    /\ pc = "get_following"
    /\ lookup = "ok"
    /\ tweetsIn = <<ReplyTweet, MentionTweet>>
    /\ Len(tweets) = 2
    /\ RegisteredPairs = <<[id |-> 1, handle |-> <<"a">>], [id |-> 1, handle |-> <<"b">>]>>
    /\ users[1] = <<"b">>
    /\ LookedUpIds # {}
    /\ Cardinality(DOMAIN users) = 1 + Cardinality(LookedUpIds)

\* the id/handle pairs of the posts that are normalized, in processing order
SeenPairs == Concat([i \in 1..Len(tweets) |-> PostPairs(tweetsIn[i])])

\* C26: after the normalization of any sequence of posts the registry has no
\* key below zero, and every entry of it is a reply-target or mention pair of a
\* normalized post whose id is not negative and whose handle is not null.
C26_NoNegativeIdNoNullHandle ==
    /\ \A id \in DOMAIN users : id >= 0 /\ users[id] # None
    /\ \A id \in DOMAIN users : \E k \in 1..Len(SeenPairs) :
          /\ SeenPairs[k].id = id /\ SeenPairs[k].handle = users[id]
          /\ SeenPairs[k].id >= 0 /\ SeenPairs[k].handle # None
    /\ \A k \in 1..Len(SeenPairs) :
          (SeenPairs[k].id < 0 \/ SeenPairs[k].handle = None) =>
              \/ SeenPairs[k].id \notin DOMAIN users
              \/ users[SeenPairs[k].id] # SeenPairs[k].handle

C26_Witness ==
    /\ pc = "get_tweets"
    /\ Len(tweets) = 2
    /\ tweetsIn[1].in_reply_to_user_id = -1
    /\ tweetsIn[1].in_reply_to_screen_name = <<"b">>
    /\ tweetsIn[1].entities.user_mentions = <<[id |-> -1, screen_name |-> <<"a">>]>>
    /\ tweetsIn[2].in_reply_to_user_id = 0
    /\ tweetsIn[2].in_reply_to_screen_name = None
    /\ Len(tweetsIn[2].entities.user_mentions) = 4
    /\ DOMAIN users = {2}
    /\ users[2] = <<"c">>

\* the number of batches of at most d ids that n ids make
CeilDiv(n, d) == (n + d - 1) \div d
Min(a, b) == IF a < b THEN a ELSE b

\* C27: the batch loop ends for every id list: a request is sent only while ids
\* are left, and every request that succeeds leaves fewer ids.  Request k
\* holds the ids 100 (k - 1) + 1 .. min(100 k, n) of the n ids of the list, in
\* list order, so a batch has between 1 and 100 ids and the batches partition
\* the list; the loop is left after ceil(n / 100) requests when all succeed,
\* and not before.
C27_BatchesPartitionAndTerminate ==
    [][sent' # sent =>
          LET n == Len(request)
              k == Len(sent')
              batch == sent'[k]
          IN  /\ pc = "batch" /\ user_ids # <<>>
              /\ sent' = Append(sent, batch)
              /\ batch = SubSeq(request, 100 * (k - 1) + 1, Min(100 * k, n))
              /\ Len(batch) \in 1..100
              /\ lookup' # "batch_failed" =>
                    /\ Len(user_ids') < Len(user_ids)
                    /\ Concat(sent') \o user_ids' = request
                    /\ pc' = "batch" <=> k < CeilDiv(n, 100)
                    /\ lookup' = "ok" <=> k = CeilDiv(n, 100)
              /\ lookup' = "batch_failed" => pc' # "batch"]_vars

C27_Witness ==
    /\ lookup = "ok"
    /\ Len(request) = BigN
    /\ Len(sent) = 2
    /\ Len(sent[1]) = 100
    /\ sent[2] = <<request[BigN]>>
    /\ user_ids = <<>>
    /\ pc # "batch"

\* the first token of raw post i is RT and the post has in_reply_to_status_id
IsRetweetedReply(i) == RawWords(i)[1] = RT /\ Has(tweetsIn[i], "in_reply_to_status_id")

\* C28 as stated: retweeted_from is set exactly when the first token of the raw
\* body is RT, whatever the kind; a post whose body starts with RT and that has
\* in_reply_to_status_id is a REPLY with retweeted_from set and with the body
\* without its first two tokens.
C28_RepostedFromIffRT ==
    \A i \in Posts :
        /\ (tweets[i].retweeted_from # None) <=> (RawWords(i)[1] = RT)
        /\ IsRetweetedReply(i) =>
              /\ tweets[i].tweet_type = "REPLY"
              /\ tweets[i].retweeted_from # None
              /\ tweets[i].tweet_data = RetweetRest(i)

\* C28 as amended: the same, the body of such a post being the body without
\* its first two tokens and without the '@mention ' tokens that follow them.
C28_RepostedFromIffRTReplyStripsMentions ==
    \A i \in Posts :
        /\ (tweets[i].retweeted_from # None) <=> (RawWords(i)[1] = RT)
        /\ IsRetweetedReply(i) =>
              LET rest == SubSeq(RawWords(i), 3, Len(RawWords(i)))
                  kept == SubSeq(rest, LeadingMentions(rest) + 1, Len(rest))
              IN  /\ tweets[i].tweet_type = "REPLY"
                  /\ tweets[i].retweeted_from # None
                  /\ tweets[i].tweet_data =
                         StripMediaUrl(tweetsIn[i],
                                       ExpandLinks(tweetsIn[i], JoinWords(kept)))

C28_Witness ==
    \E i \in Posts :
        /\ RawWords(i) = <<RT, <<"h">>, <<"@", "a">>>>
        /\ Has(tweetsIn[i], "in_reply_to_status_id")
        /\ tweets[i].tweet_type = "REPLY"
        /\ tweets[i].retweeted_from = <<>>
        /\ tweets[i].replied_to_names = << <<"@", "a">> >>
        /\ tweets[i].tweet_data = <<>>

=============================================================================
